---- MODULE Spec2Model ----
(***************************************************************************)
(* Model of the YARN Fair Scheduler configurator's synchronization engine: *)
(* the XML parser and generator (server/xml-utils) and the in-memory store *)
(* with pending changes (server/storage, class MemStorage).               *)
(*                                                                         *)
(* Representation of values.                                               *)
(*  - A JS number is an integer counting tenths (4.0 is 40, 0.5 is 5);     *)
(*    null/undefined is NullNum and NaN is NaN.                            *)
(*  - A JS boolean|null is one of "true", "false", Null.                   *)
(*  - A JS string|null is a string; null/undefined is Null.                *)
(*  - The text of a numeric XML element is a literal: its integer part and *)
(*    the digits after the decimal point (none when there is no point).    *)
(*  - A document is the element tree xml2js builds from the text.          *)
(***************************************************************************)
EXTENDS Integers, Sequences, FiniteSets, TLC

Null == "null"
NullNum == 0 - 1
NaN == 0 - 2

\* n as a JS number (tenths)
N(n) == n * 10

Truthy(v) == v # NullNum /\ v # NaN /\ v # 0
TruthyStr(s) == s # Null /\ s # ""

(***************************************************************************)
(* Text of numeric elements                                                *)
(***************************************************************************)
NoText == [kind |-> "none", ip |-> 0, fp |-> <<>>]
JunkText == [kind |-> "junk", ip |-> 0, fp |-> <<>>]
NumText(ip, fp) == [kind |-> "num", ip |-> ip, fp |-> fp]

\* `${value}` of a JS number: the shortest literal of the value, so an
\* integral value prints without a decimal point
NumberToString(v) ==
  IF v = NullNum THEN [kind |-> "junk", ip |-> 0, fp |-> <<>>]
  ELSE IF v = NaN THEN [kind |-> "junk", ip |-> 0, fp |-> <<>>]
  ELSE IF v % 10 = 0 THEN NumText(v \div 10, <<>>)
  ELSE NumText(v \div 10, <<v % 10>>)

parseFloat(t) ==
  IF t.kind # "num" THEN NaN
  ELSE t.ip * 10 + (IF t.fp = <<>> THEN 0 ELSE t.fp[1])

parseInt(t) ==
  IF t.kind # "num" THEN NaN ELSE t.ip * 10

\* a || b on numbers
OrNum(a, b) == IF Truthy(a) THEN a ELSE b
\* a || b on strings
OrStr(a, b) == IF TruthyStr(a) THEN a ELSE b
\* a || null on booleans
OrNullBool(a) == IF a = "true" THEN a ELSE Null

(***************************************************************************)
(* Resource-pair text: the comma-separated parts "<number> <unit>"         *)
(***************************************************************************)
NoRes == <<>>
ResPart(v, unit) == [lit |-> NumberToString(v), unit |-> unit]

\* the digits a (\d+) group captures right before the unit: the last run of
\* digits of the literal
CapturedDigits(lit) ==
  IF lit.fp # <<>> THEN NumText(lit.fp[1], <<>>) ELSE NumText(lit.ip, <<>>)

\* a pattern that is satisfied by any numbers: the first and the last number
\* of the text, whatever their units and their order
ResMatchAnyNumbers(parts) ==
  LET nums == {i \in 1..Len(parts) : parts[i].lit.kind = "num"}
  IN IF nums = {} THEN <<>>
     ELSE <<CapturedDigits(parts[CHOOSE x \in nums : \A y \in nums : x <= y].lit),
            CapturedDigits(parts[CHOOSE x \in nums : \A y \in nums : x >= y].lit)>>

\* text.match(/(\d+)\s*mb.*?(\d+)\s*vcores/i): <<>> when there is no match,
\* else the two captured groups
ResMatch(parts) ==
  LET mbs == {i \in 1..Len(parts) :
                /\ parts[i].unit = "mb" /\ parts[i].lit.kind = "num"
                /\ \E j \in (i+1)..Len(parts) :
                     parts[j].unit = "vcores" /\ parts[j].lit.kind = "num"}
  IN IF mbs = {} THEN <<>>
     ELSE LET i == CHOOSE x \in mbs : \A y \in mbs : x <= y
              vs == {j \in (i+1)..Len(parts) :
                       parts[j].unit = "vcores" /\ parts[j].lit.kind = "num"}
              j == CHOOSE x \in vs : \A y \in vs : x <= y
          IN <<CapturedDigits(parts[i].lit), CapturedDigits(parts[j].lit)>>

(***************************************************************************)
(* Queue records (shared/schema.ts, table queues, without and with id)     *)
(***************************************************************************)
InsertQueue(name, parent, weight, policy) ==
  [name |-> name, parent |-> parent, weight |-> weight,
   schedulingPolicy |-> policy,
   minMemory |-> NullNum, minVcores |-> NullNum,
   maxMemory |-> NullNum, maxVcores |-> NullNum,
   maxRunningApps |-> NullNum, maxAMShare |-> NullNum,
   allowPreemptionFrom |-> Null, allowPreemptionTo |-> Null,
   reservation |-> Null,
   aclSubmitApps |-> Null, aclAdministerApps |-> Null]

\* { ...a, ...b }: the keys of b override those of a
Spread(a, b) ==
  [f \in DOMAIN a \cup DOMAIN b |-> IF f \in DOMAIN b THEN b[f] ELSE a[f]]

(***************************************************************************)
(* Generator: generateXMLFromQueues                                        *)
(***************************************************************************)
QueueElem(name) ==
  [name |-> name, weight |-> NoText, schedulingPolicy |-> "",
   minResources |-> NoRes, maxResources |-> NoRes,
   maxRunningApps |-> NoText, maxAMShare |-> NoText,
   allowPreemptionFrom |-> "", allowPreemptionTo |-> "",
   aclSubmitApps |-> "", aclAdministerApps |-> "",
   queue |-> <<>>]

BoolText(b) == IF b = "true" THEN "true" ELSE "false"

ResParts(memory, vcores) ==
  IF Truthy(memory) \/ Truthy(vcores)
  THEN (IF Truthy(memory) THEN <<ResPart(memory, "mb")>> ELSE <<>>)
       \o (IF Truthy(vcores) THEN <<ResPart(vcores, "vcores")>> ELSE <<>>)
  ELSE NoRes

\* childrenMap.get(name): the queues whose parent is name, in list order
\* (a parent that names no queue of the list has no entry)
childrenMap(queues, name) ==
  SelectSeq(queues, LAMBDA q : TruthyStr(q.parent) /\ q.parent = name)

\* a generator that leaves allowPreemptionFrom out unless it is true
PreemptionFromOmitted(q) == IF q.allowPreemptionFrom = "true" THEN "true" ELSE ""

\* allowPreemptionFrom !== null ? allowPreemptionFrom : false, written as
\* 'true' or 'false'
PreemptionFrom(q) == BoolText(q.allowPreemptionFrom)

\* the properties generateQueueXML emits for one queue, children apart
QueueProps(q) ==
  IF q.name # "root"
  THEN [QueueElem(q.name) EXCEPT
          !.weight = IF q.weight # NullNum THEN NumberToString(q.weight) ELSE NoText,
          !.schedulingPolicy = IF TruthyStr(q.schedulingPolicy) THEN q.schedulingPolicy ELSE "",
          !.minResources = ResParts(q.minMemory, q.minVcores),
          !.maxResources = ResParts(q.maxMemory, q.maxVcores),
          !.maxRunningApps = IF Truthy(q.maxRunningApps) THEN NumberToString(q.maxRunningApps) ELSE NoText,
          !.maxAMShare = IF Truthy(q.maxAMShare) THEN NumberToString(q.maxAMShare) ELSE NoText,
          !.allowPreemptionFrom = PreemptionFrom(q),
          !.allowPreemptionTo = IF q.allowPreemptionTo # Null THEN BoolText(q.allowPreemptionTo) ELSE "",
          !.aclSubmitApps = IF OrStr(q.aclSubmitApps, "*") # "*" THEN q.aclSubmitApps ELSE "",
          !.aclAdministerApps = IF OrStr(q.aclAdministerApps, "*") # "*" THEN q.aclAdministerApps ELSE ""]
  ELSE [QueueElem(q.name) EXCEPT
          !.weight = IF Truthy(q.weight) /\ q.weight # N(1) THEN NumberToString(q.weight) ELSE NoText,
          !.schedulingPolicy = IF TruthyStr(q.schedulingPolicy) THEN q.schedulingPolicy ELSE "",
          !.allowPreemptionFrom = PreemptionFrom(q),
          !.allowPreemptionTo = IF q.allowPreemptionTo # Null THEN BoolText(q.allowPreemptionTo) ELSE ""]

RECURSIVE generateQueueXML(_, _, _)
RECURSIVE generateChildren(_, _, _)
\* fuel bounds the recursion depth; Unbounded tells when the code's recursion
\* would not end
generateQueueXML(queues, q, fuel) ==
  [QueueProps(q) EXCEPT
     !.queue = IF fuel = 0 THEN <<>>
               ELSE generateChildren(queues, childrenMap(queues, q.name), fuel - 1)]
generateChildren(queues, children, fuel) ==
  IF children = <<>> THEN <<>>
  ELSE <<generateQueueXML(queues, Head(children), fuel)>>
       \o generateChildren(queues, Tail(children), fuel)

RECURSIVE Unbounded(_, _, _)
\* the recursion of generateQueueXML from queue name is deeper than fuel: with
\* fuel = Len(queues) a name repeats on the path, and the code recurses until
\* the stack overflows (RangeError)
Unbounded(queues, name, fuel) ==
  IF fuel = 0 THEN TRUE
  ELSE \E i \in 1..Len(queues) :
         /\ TruthyStr(queues[i].parent) /\ queues[i].parent = name
         /\ Unbounded(queues, queues[i].name, fuel - 1)

GlobalConfigDefaults ==
  [id |-> 1,
   defaultQueueSchedulingPolicy |-> "fair",
   userMaxAppsDefault |-> N(5),
   queueMaxAppsDefault |-> NullNum,
   queueMaxAMShareDefault |-> NullNum,
   queuePlacementRules |-> <<"specified", "user", "default">>,
   defaultQueue |-> "default"]

Rule(name, queue, create) == [name |-> name, queue |-> queue, create |-> create]

\* the string queuePlacementRules is modelled by the sequence of its
\* comma-separated items; the empty string is <<"">>
TruthyRules(r) == r # <<>> /\ r # <<"">>

Document(queue, umad, dqsp, rule) ==
  [ok |-> TRUE, allocations |-> TRUE, queue |-> queue,
   userMaxAppsDefault |-> umad, defaultQueueSchedulingPolicy |-> dqsp,
   queueMaxAppsDefault |-> NoText, queueMaxAMShareDefault |-> NoText,
   rule |-> rule]

\* the queue the generator starts from: queueMap.get('root'), the last queue
\* of the list named root
RootIndex(queues) ==
  LET rs == {i \in 1..Len(queues) : queues[i].name = "root"}
  IN IF rs = {} THEN 0 ELSE CHOOSE i \in rs : \A j \in rs : j <= i

\* a generator that writes the default rule first
GenRulesDefaultFirst(globalConfig) ==
  LET placementRules == IF TruthyRules(globalConfig.queuePlacementRules)
                        THEN globalConfig.queuePlacementRules
                        ELSE <<"specified", "user", "default">>
      defaultQueue == OrStr(globalConfig.defaultQueue, "default")
      first == SelectSeq(placementRules, LAMBDA r : r = "default")
      rest == SelectSeq(placementRules, LAMBDA r : r # "default")
  IN [i \in 1..Len(first) |-> Rule("default", defaultQueue, "")] \o
     [i \in 1..Len(rest) |-> Rule(rest[i], "", "")]

GenRules(globalConfig) ==
  LET placementRules == IF TruthyRules(globalConfig.queuePlacementRules)
                        THEN globalConfig.queuePlacementRules
                        ELSE <<"specified", "user", "default">>
      defaultQueue == OrStr(globalConfig.defaultQueue, "default")
  IN [i \in 1..Len(placementRules) |->
        IF placementRules[i] = "default"
        THEN Rule("default", defaultQueue, "")
        ELSE Rule(placementRules[i], "", "")]

\* [threw |-> TRUE] when the recursion overflows the stack, else the document
generateXMLFromQueues(queues, globalConfig) ==
  LET r == RootIndex(queues)
      top == SelectSeq(queues, LAMBDA q : ~TruthyStr(q.parent))
      loops == IF r # 0 THEN Unbounded(queues, "root", Len(queues))
               ELSE \E i \in 1..Len(top) : Unbounded(queues, top[i].name, Len(queues))
  IN IF loops THEN [threw |-> TRUE, doc |-> Document(<<>>, NoText, "", <<>>)]
     ELSE [threw |-> FALSE,
           doc |-> Document(
             IF r # 0 THEN <<generateQueueXML(queues, queues[r], Len(queues))>>
             ELSE generateChildren(queues, top, Len(queues)),
             NumberToString(OrNum(globalConfig.userMaxAppsDefault, N(5))),
             OrStr(globalConfig.defaultQueueSchedulingPolicy, "fair"),
             GenRules(globalConfig))]

(***************************************************************************)
(* Parser: parseQueuesFromXML, parseGlobalConfigFromXML                    *)
(***************************************************************************)
\* the record the parser builds for a queue element: the keys it does not set
\* (undefined) read as null
ParsedQueue(queueXml, parentName) ==
  LET minRes == ResMatch(queueXml.minResources)
      maxRes == ResMatch(queueXml.maxResources)
  IN [InsertQueue(queueXml.name, parentName,
                  OrNum(parseFloat(queueXml.weight), N(1)),
                  OrStr(queueXml.schedulingPolicy, "fair")) EXCEPT
        !.minMemory = IF minRes # <<>> THEN parseInt(minRes[1]) ELSE NullNum,
        !.minVcores = IF minRes # <<>> THEN parseInt(minRes[2]) ELSE NullNum,
        !.maxMemory = IF maxRes # <<>> THEN parseInt(maxRes[1]) ELSE NullNum,
        !.maxVcores = IF maxRes # <<>> THEN parseInt(maxRes[2]) ELSE NullNum,
        !.maxRunningApps = IF queueXml.maxRunningApps.kind # "none"
                           THEN parseInt(queueXml.maxRunningApps) ELSE NullNum,
        !.maxAMShare = IF queueXml.maxAMShare.kind # "none"
                       THEN parseFloat(queueXml.maxAMShare) ELSE NullNum,
        !.allowPreemptionFrom = IF queueXml.allowPreemptionFrom # ""
                                THEN BoolText(queueXml.allowPreemptionFrom) ELSE Null,
        !.allowPreemptionTo = IF queueXml.allowPreemptionTo # ""
                              THEN BoolText(queueXml.allowPreemptionTo) ELSE Null]

RECURSIVE processQueue(_, _)
RECURSIVE processQueues(_, _)
\* a walk that hands "root" as the parent to the nested elements too
processQueueTopParent(queueXml, parentName) ==
  IF ~TruthyStr(queueXml.name) THEN <<>>
  ELSE <<ParsedQueue(queueXml, parentName)>>
       \o processQueues(queueXml.queue, "root")

\* the records pushed for one queue element and its nested elements, in
\* pre-order; an element without a name attribute is skipped with its subtree
processQueue(queueXml, parentName) ==
  IF ~TruthyStr(queueXml.name) THEN <<>>
  ELSE <<ParsedQueue(queueXml, parentName)>>
       \o processQueues(queueXml.queue, queueXml.name)
processQueues(queueList, parentName) ==
  IF queueList = <<>> THEN <<>>
  ELSE processQueue(Head(queueList), parentName)
       \o processQueues(Tail(queueList), parentName)

\* a synthesized root of weight 2.0
SynthRootHeavy == InsertQueue("root", Null, N(2), "fair")

SynthRoot == InsertQueue("root", Null, N(1), "fair")

\* if (result.allocations.queue): with explicitArray false, xml2js gives an
\* array for several queue elements, an object for one, and the empty string
\* for one element without attributes and content
hasQueues(content) ==
  content.queue # <<>> /\ content.queue # <<QueueElem("")>>

\* [threw |-> TRUE] when the text is not well-formed, else the queue list
parseQueuesFromXML(content) ==
  IF ~content.ok THEN [threw |-> TRUE, queues |-> <<>>]
  ELSE IF ~content.allocations THEN [threw |-> FALSE, queues |-> <<>>]
  ELSE [threw |-> FALSE,
        queues |-> IF hasQueues(content)
                   THEN <<SynthRoot>> \o processQueues(content.queue, "root")
                   ELSE <<>>]

\* the rule names the parser joins with ","; a default rule with a queue
\* attribute also sets defaultQueue
RuleNames(rules) ==
  [i \in 1..Len(rules) |-> IF rules[i].name = Null THEN "" ELSE rules[i].name]

RuleDefaultQueue(rules, dflt) ==
  LET ds == {i \in 1..Len(rules) : rules[i].name = "default" /\ TruthyStr(rules[i].queue)}
  IN IF ds = {} THEN dflt
     ELSE rules[CHOOSE i \in ds : \A j \in ds : j <= i].queue

parseGlobalConfigFromXML(content) ==
  IF ~content.ok THEN [threw |-> TRUE, config |-> GlobalConfigDefaults]
  ELSE IF ~content.allocations THEN [threw |-> FALSE, config |-> GlobalConfigDefaults]
  ELSE [threw |-> FALSE,
        config |->
          [id |-> 1,
           defaultQueueSchedulingPolicy |->
             IF TruthyStr(content.defaultQueueSchedulingPolicy)
             THEN content.defaultQueueSchedulingPolicy ELSE "fair",
           userMaxAppsDefault |->
             IF content.userMaxAppsDefault.kind # "none"
             THEN parseInt(content.userMaxAppsDefault) ELSE N(5),
           queueMaxAppsDefault |->
             IF content.queueMaxAppsDefault.kind # "none"
             THEN parseInt(content.queueMaxAppsDefault) ELSE NullNum,
           queueMaxAMShareDefault |->
             IF content.queueMaxAMShareDefault.kind # "none"
             THEN parseFloat(content.queueMaxAMShareDefault) ELSE NullNum,
           queuePlacementRules |->
             IF content.rule # <<>> THEN RuleNames(content.rule)
             ELSE <<"specified", "user", "default">>,
           defaultQueue |-> RuleDefaultQueue(content.rule, "default")]]

(***************************************************************************)
(* Documents: the canonical default and the sample files of the model      *)
(***************************************************************************)
Res(memory, vcores) == <<ResPart(N(memory), "mb"), ResPart(N(vcores), "vcores")>>

\* getDefaultXMLContent()
DefaultXMLContent ==
  Document(
    << [QueueElem("production") EXCEPT
          !.weight = NumText(3, <<0>>), !.schedulingPolicy = "fair",
          !.minResources = Res(2048, 2), !.maxResources = Res(16384, 8),
          !.maxRunningApps = NumText(100, <<>>), !.maxAMShare = NumText(0, <<3>>),
          !.allowPreemptionFrom = "true"],
       [QueueElem("development") EXCEPT
          !.weight = NumText(2, <<0>>), !.schedulingPolicy = "fair",
          !.minResources = Res(1024, 1), !.maxResources = Res(8192, 4),
          !.maxRunningApps = NumText(50, <<>>), !.maxAMShare = NumText(0, <<5>>)],
       [QueueElem("default") EXCEPT
          !.weight = NumText(1, <<0>>), !.schedulingPolicy = "fair",
          !.minResources = Res(1024, 1), !.maxResources = Res(8192, 4),
          !.maxRunningApps = NumText(25, <<>>)] >>,
    NumText(5, <<>>), "fair",
    <<Rule("specified", "", ""), Rule("user", "", ""), Rule("default", "default", "")>>)

\* a hand-written file: one queue under the implicit root, global settings
\* that differ from the defaults
DocAnalytics ==
  Document(
    << [QueueElem("analytics") EXCEPT
          !.weight = NumText(2, <<0>>),
          !.minResources = Res(1024, 1),
          !.maxRunningApps = NumText(10, <<>>)] >>,
    NumText(7, <<>>), "drf",
    <<Rule("specified", "", "false"), Rule("default", "analytics", "")>>)

\* a file that is not well-formed markup (also what a write that fails half
\* way leaves behind)
DocMalformed == [Document(<<>>, NoText, "", <<>>) EXCEPT !.ok = FALSE]

NoFile == [exists |-> FALSE]

DefaultConfigPath == "./data/fair-scheduler.xml"
RoutesConfigPath == "/etc/hadoop/conf/fair-scheduler.xml"
Paths == {DefaultConfigPath, RoutesConfigPath}

(***************************************************************************)
(* Map<number, Queue>: the entries in insertion order                      *)
(***************************************************************************)
Ids(m) == {m[i].id : i \in 1..Len(m)}
MapHas(m, id) == id \in Ids(m)
MapGet(m, id) == m[CHOOSE i \in 1..Len(m) : m[i].id = id]
MapSet(m, id, v) ==
  IF MapHas(m, id)
  THEN [i \in 1..Len(m) |-> IF m[i].id = id THEN v ELSE m[i]]
  ELSE Append(m, v)
MapDelete(m, id) == SelectSeq(m, LAMBDA q : q.id # id)

(***************************************************************************)
(* Bounds and inputs                                                       *)
(***************************************************************************)
\* edits (createQueue, updateQueue, deleteQueue, updateGlobalConfig calls) in
\* one run
MaxEdits == 2
\* config-file records created in one run (currentConfigId is capped)
MaxConfigId == 3

Batch == InsertQueue("batch", "root", N(1), Null)
Etl ==
  [InsertQueue("etl", "batch", N(4), "drf") EXCEPT
     !.minMemory = N(1024), !.minVcores = N(1),
     !.maxMemory = N(2048), !.maxVcores = N(2),
     !.maxRunningApps = N(10), !.maxAMShare = 5,
     !.allowPreemptionFrom = "true", !.allowPreemptionTo = "true",
     !.aclSubmitApps = "alice", !.aclAdministerApps = "bob"]
CreateInputs == {Batch, Etl}
UpdateInputs == {[weight |-> N(4)]}
GlobalInputs == {[userMaxAppsDefault |-> N(9)]}
InitialFiles == {NoFile, DocAnalytics}

(***************************************************************************)
(* MemStorage                                                              *)
(***************************************************************************)
VARIABLES
  queues,            \* Map<number, Queue>
  configFiles,       \* Map<number, ConfigFile>
  globalConfig,
  currentQueueId,
  currentConfigId,
  pendingChanges,    \* Set<number>
  lastSyncedState,   \* Map<number, Queue>
  disk,              \* the file system: path -> file
  loaded,            \* loadConfigFromDisk has finished
  edits,             \* queue edits so far (bounded by MaxEdits)
  editRun,           \* what happened since the store was last Clean
  lastOp,            \* the last operation and its outcome
  rt                 \* the value a parse/generate pipeline has reached, the
                     \* request a route handles, or the frame of a suspended
                     \* applyPendingChanges call

storeVars == <<queues, configFiles, globalConfig, currentQueueId, currentConfigId,
               pendingChanges, lastSyncedState, disk, loaded, edits, editRun, lastOp>>
vars == <<storeVars, rt>>

\* op: the call; ok: it returned without throwing; dirty: changes were pending
\* when it was made; wrote: "yes" when it wrote a file, "failed" when the write
\* threw, "no" when it wrote nothing
Op(op, ok, dirty, wrote) == [op |-> op, ok |-> ok, dirty |-> dirty, wrote |-> wrote]

hasPendingChanges == Cardinality(pendingChanges) > 0
getPendingChangesCount == Cardinality(pendingChanges)

\* getConfigFile(): the first record of the map, or none
NoConfigFile == [id |-> 0, filePath |-> "", content |-> NoFile, isValid |-> Null]
\* a store that finds no config-file record
getConfigFileNone == NoConfigFile

getConfigFile == IF configFiles = <<>> THEN NoConfigFile ELSE configFiles[1]

ConfigFile(id, filePath, content, isValid) ==
  [id |-> id, filePath |-> filePath, content |-> content, isValid |-> isValid]

\* the record syncQueuesFromXML and initializeDefaultQueues store for a queue:
\* the listed fields go through `|| null`
StoredQueue(queue, id) ==
  [Spread(queue, [id |-> id]) EXCEPT
     !.parent = OrStr(queue.parent, Null),
     !.weight = OrNum(queue.weight, NullNum),
     !.schedulingPolicy = OrStr(queue.schedulingPolicy, Null),
     !.minMemory = OrNum(queue.minMemory, NullNum),
     !.minVcores = OrNum(queue.minVcores, NullNum),
     !.maxMemory = OrNum(queue.maxMemory, NullNum),
     !.maxVcores = OrNum(queue.maxVcores, NullNum),
     !.maxRunningApps = OrNum(queue.maxRunningApps, NullNum),
     !.maxAMShare = OrNum(queue.maxAMShare, NullNum),
     !.allowPreemptionFrom = OrNullBool(queue.allowPreemptionFrom),
     !.allowPreemptionTo = OrNullBool(queue.allowPreemptionTo),
     !.reservation = OrNullBool(queue.reservation)]

RECURSIVE uniqueQueuesLastWins(_, _)
\* a sync that keeps the last record of each name
uniqueQueuesLastWins(list, seen) ==
  IF list = <<>> THEN <<>>
  ELSE IF \E i \in 2..Len(list) : list[i].name = Head(list).name
       THEN uniqueQueuesLastWins(Tail(list), seen)
       ELSE <<Head(list)>> \o uniqueQueuesLastWins(Tail(list), seen)

\* a sync that keeps every record, repeated names included
uniqueQueuesKeepAll(list, seen) == list

RECURSIVE uniqueQueues(_, _)
\* the first record of each name, in order of first occurrence
uniqueQueues(list, seen) ==
  IF list = <<>> THEN <<>>
  ELSE IF Head(list).name \in seen THEN uniqueQueues(Tail(list), seen)
  ELSE <<Head(list)>> \o uniqueQueues(Tail(list), seen \cup {Head(list).name})

\* syncQueuesFromXML(list): the new queues map (ids from 1); the id counter
\* ends at Len + 1
syncQueuesFromXML(list) ==
  LET u == uniqueQueues(list, {})
  IN [i \in 1..Len(u) |-> StoredQueue(u[i], i)]

\* initializeDefaultQueues() on an empty map with the id counter at 1
initializeDefaultQueues ==
  LET production ==
        [InsertQueue("production", "root", N(3), "fair") EXCEPT
           !.minMemory = N(2048), !.minVcores = N(2),
           !.maxMemory = N(16384), !.maxVcores = N(8),
           !.maxRunningApps = N(100), !.maxAMShare = 3,
           !.allowPreemptionFrom = "true",
           !.aclSubmitApps = "*", !.aclAdministerApps = "*"]
      development ==
        [InsertQueue("development", "root", N(2), "fair") EXCEPT
           !.minMemory = N(1024), !.minVcores = N(1),
           !.maxMemory = N(8192), !.maxVcores = N(4),
           !.maxRunningApps = N(50), !.maxAMShare = 5]
      default ==
        [InsertQueue("default", "root", N(1), "fair") EXCEPT
           !.minMemory = N(1024), !.minVcores = N(1),
           !.maxMemory = N(8192), !.maxVcores = N(4),
           !.maxRunningApps = N(25)]
      root ==
        [InsertQueue("root", Null, N(1), "fair") EXCEPT
           !.aclSubmitApps = "*", !.aclAdministerApps = "*"]
      defaultQueues == <<root, production, development, default>>
  IN [i \in 1..Len(defaultQueues) |->
        [StoredQueue(defaultQueues[i], i) EXCEPT
           !.aclSubmitApps = OrStr(defaultQueues[i].aclSubmitApps, Null),
           !.aclAdministerApps = OrStr(defaultQueues[i].aclAdministerApps, Null)]]

\* a copy that leaves out the entries whose id is pending
CopyMapSkipsPending(m) == SelectSeq(m, LAMBDA q : q.id \notin pendingChanges)

\* new Map with a copy { ...queue } of every entry of m, in m's order
CopyMap(m) == m

\* an edit that records nothing
MarkPendingNone(id) == pendingChanges

\* pendingChanges.add(id)
MarkPending(id) == pendingChanges \cup {id}

\* an apply without the early return
NothingPendingNever == FALSE

\* the early return of applyPendingChanges: pendingChanges.size === 0
NothingPending == Cardinality(pendingChanges) = 0

Init ==
  /\ queues = <<>>
  /\ configFiles = <<>>
  /\ globalConfig = GlobalConfigDefaults
  /\ currentQueueId = 1
  /\ currentConfigId = 1
  /\ pendingChanges = {}
  /\ lastSyncedState = <<>>
  /\ \E f \in InitialFiles :
       disk = [p \in Paths |-> IF p = DefaultConfigPath THEN f ELSE NoFile]
  /\ loaded = FALSE
  /\ edits = 0
  /\ editRun = "clean"
  /\ lastOp = Op("new", TRUE, FALSE, "no")
  /\ rt = [phase |-> "none"]

\* what a write that fails may leave at the path: the old file, or a
\* truncated one
FailedWrite(old) == {old, DocMalformed}

\* loadConfigFromDisk(), run to completion
loadConfigFromDisk ==
  /\ ~loaded
  /\ \E writeOk \in BOOLEAN :
       LET found == disk[DefaultConfigPath] # NoFile
           xmlContent == IF found THEN disk[DefaultConfigPath] ELSE DefaultXMLContent
           g == parseGlobalConfigFromXML(xmlContent)
           p == parseQueuesFromXML(xmlContent)
           q == IF g.threw \/ p.threw THEN initializeDefaultQueues
                ELSE syncQueuesFromXML(p.queues)
       IN /\ (found => writeOk)
          /\ \E left \in (IF found \/ writeOk THEN {xmlContent}
                          ELSE FailedWrite(disk[DefaultConfigPath])) :
               disk' = [disk EXCEPT ![DefaultConfigPath] = left]
          /\ configFiles' = Append(configFiles,
                                   ConfigFile(currentConfigId, DefaultConfigPath, xmlContent, "true"))
          /\ currentConfigId' = currentConfigId + 1
          /\ globalConfig' = IF g.threw THEN globalConfig
                             ELSE Spread(globalConfig, g.config)
          /\ queues' = q
          /\ currentQueueId' = Len(q) + 1
          /\ lastSyncedState' = CopyMap(q)
          /\ lastOp' = Op("load", TRUE, FALSE,
                          IF found THEN "no" ELSE IF writeOk THEN "yes" ELSE "failed")
  /\ loaded' = TRUE
  /\ UNCHANGED <<pendingChanges, edits, editRun, rt>>

\* the body of createQueue(insertQueue)
doCreateQueue(insertQueue) ==
  /\ edits < MaxEdits
  /\ LET id == currentQueueId
         queue == Spread(insertQueue, [id |-> id])
     IN /\ queues' = MapSet(queues, id, queue)
        /\ pendingChanges' = MarkPending(id)
        /\ currentQueueId' = currentQueueId + 1
  /\ edits' = edits + 1
  /\ editRun' = IF editRun = "broken" THEN "broken" ELSE "edited"
  /\ lastOp' = Op("createQueue", TRUE, hasPendingChanges, "no")
  /\ UNCHANGED <<configFiles, globalConfig, currentConfigId, lastSyncedState, disk, loaded, rt>>

\* createQueue(insertQueue) on a store whose initial load has finished
createQueue(insertQueue) ==
  /\ loaded
  /\ doCreateQueue(insertQueue)

\* a call that found no queue and marks its id as pending all the same
NotFoundMarksPending(id) ==
  /\ pendingChanges' = MarkPending(id)
  /\ UNCHANGED queues

\* updateQueue returns undefined, deleteQueue returns false: the id is in no
\* entry of the map
NotFound(id) == UNCHANGED <<queues, pendingChanges>>

\* the outcome of a call that names a queue id
OpOn(op, id, ok, dirty) == Spread(Op(op, ok, dirty, "no"), [id |-> id])

\* what a call that found no queue does to the history of edits
Called(run) == IF run = "clean" THEN "called" ELSE run

\* an update that assigns the fields to the stored record in place, where
\* the baseline holds that same record
BaselineShared(id) ==
  lastSyncedState' = IF MapHas(lastSyncedState, id)
                     THEN MapSet(lastSyncedState, id, MapGet(queues', id))
                     ELSE lastSyncedState

\* updateQueue builds a new record { ...existingQueue, ...updateData } and
\* puts it into this.queues; the records of the baseline are copies that no
\* call assigns to
BaselineKept(id) == UNCHANGED lastSyncedState

\* updateQueue(id, updateData)
updateQueue(id, updateData) ==
  /\ loaded
  /\ edits < MaxEdits
  /\ IF MapHas(queues, id)
     THEN /\ queues' = MapSet(queues, id, Spread(MapGet(queues, id), updateData))
          /\ pendingChanges' = MarkPending(id)
          /\ BaselineKept(id)
          /\ editRun' = IF editRun = "broken" THEN "broken" ELSE "edited"
          /\ lastOp' = OpOn("updateQueue", id, TRUE, hasPendingChanges)
     ELSE /\ NotFound(id)
          /\ editRun' = Called(editRun)
          /\ lastOp' = OpOn("updateQueue", id, FALSE, hasPendingChanges)
          /\ UNCHANGED lastSyncedState
  /\ edits' = edits + 1
  /\ UNCHANGED <<configFiles, globalConfig, currentQueueId, currentConfigId,
                 disk, loaded, rt>>

\* deleteQueue(id)
deleteQueue(id) ==
  /\ loaded
  /\ edits < MaxEdits
  /\ IF MapHas(queues, id)
     THEN /\ queues' = MapDelete(queues, id)
          /\ pendingChanges' = MarkPending(id)
          /\ editRun' = IF editRun = "broken" THEN "broken" ELSE "edited"
          /\ lastOp' = OpOn("deleteQueue", id, TRUE, hasPendingChanges)
     ELSE /\ NotFound(id)
          /\ editRun' = Called(editRun)
          /\ lastOp' = OpOn("deleteQueue", id, FALSE, hasPendingChanges)
  /\ edits' = edits + 1
  /\ UNCHANGED <<configFiles, globalConfig, currentQueueId, currentConfigId,
                 lastSyncedState, disk, loaded, rt>>

\* the history of edits after an apply, a discard or a reload
AfterSync(pending) == IF pending = {} THEN "clean" ELSE "broken"

\* an apply that rebuilds the baseline and keeps the pending set
CommitApplyKeepsPending ==
  /\ lastSyncedState' = CopyMap(queues)
  /\ UNCHANGED pendingChanges

\* a catch block that clears the pending set
AbortApplyClears ==
  /\ pendingChanges' = {}
  /\ UNCHANGED lastSyncedState

\* the end of the try block of applyPendingChanges: the pending set is
\* cleared and the baseline becomes a copy of the queues
CommitApply ==
  /\ pendingChanges' = {}
  /\ lastSyncedState' = CopyMap(queues)

\* the catch block of applyPendingChanges: the error is logged and rethrown
AbortApply == UNCHANGED <<pendingChanges, lastSyncedState>>

\* applyPendingChanges(), run to completion; writeOk is whether mkdir and
\* writeFile succeed
applyPendingChanges ==
  /\ loaded
  /\ IF NothingPending
     THEN /\ lastOp' = Op("applyPendingChanges", TRUE, FALSE, "no")
          /\ editRun' = AfterSync(pendingChanges)
          /\ UNCHANGED <<queues, configFiles, globalConfig, currentQueueId, currentConfigId,
                         pendingChanges, lastSyncedState, disk>>
     ELSE LET gen == generateXMLFromQueues(queues, globalConfig)
              configFile == getConfigFile
          IN IF gen.threw
             THEN /\ AbortApply
                  /\ lastOp' = Op("applyPendingChanges", FALSE, TRUE, "no")
                  /\ editRun' = AfterSync(pendingChanges')
                  /\ UNCHANGED <<queues, configFiles, globalConfig, currentQueueId,
                                 currentConfigId, disk>>
             ELSE IF configFile = NoConfigFile
             THEN /\ CommitApply
                  /\ lastOp' = Op("applyPendingChanges", TRUE, TRUE, "no")
                  /\ editRun' = AfterSync(pendingChanges')
                  /\ UNCHANGED <<queues, configFiles, globalConfig, currentQueueId,
                                 currentConfigId, disk>>
             ELSE /\ currentConfigId <= MaxConfigId
                  /\ configFiles' = Append(configFiles,
                       ConfigFile(currentConfigId, configFile.filePath, gen.doc, "true"))
                  /\ currentConfigId' = currentConfigId + 1
                  /\ \E writeOk \in BOOLEAN :
                       IF writeOk
                       THEN /\ disk' = [disk EXCEPT ![configFile.filePath] = gen.doc]
                            /\ CommitApply
                            /\ lastOp' = Op("applyPendingChanges", TRUE, TRUE, "yes")
                       ELSE /\ \E left \in FailedWrite(disk[configFile.filePath]) :
                                 disk' = [disk EXCEPT ![configFile.filePath] = left]
                            /\ AbortApply
                            /\ lastOp' = Op("applyPendingChanges", FALSE, TRUE, "failed")
                  /\ editRun' = AfterSync(pendingChanges')
                  /\ UNCHANGED <<queues, globalConfig, currentQueueId>>
  /\ UNCHANGED <<loaded, edits, rt>>

\* a discard that clears the pending set and leaves the queues as they are
discardKeepsQueues ==
  /\ loaded
  /\ pendingChanges' = {}
  /\ editRun' = "clean"
  /\ lastOp' = Op("discardPendingChanges", TRUE, hasPendingChanges, "no")
  /\ UNCHANGED <<queues, configFiles, globalConfig, currentQueueId, currentConfigId,
                 lastSyncedState, disk, loaded, edits, rt>>

\* discardPendingChanges()
discardPendingChanges ==
  /\ loaded
  /\ queues' = CopyMap(lastSyncedState)
  /\ pendingChanges' = {}
  /\ editRun' = "clean"
  /\ lastOp' = Op("discardPendingChanges", TRUE, hasPendingChanges, "no")
  /\ UNCHANGED <<configFiles, globalConfig, currentQueueId, currentConfigId,
                 lastSyncedState, disk, loaded, edits, rt>>

\* a reload that drops the config-file records before it reads the file
ReadFailsFilesCleared ==
  /\ configFiles' = <<>>
  /\ UNCHANGED <<queues, globalConfig, currentQueueId, currentConfigId,
                 pendingChanges, lastSyncedState>>

\* readConfigFromDisk throws in reloadFromDisk: nothing was assigned yet
ReadFails ==
  UNCHANGED <<queues, configFiles, globalConfig, currentQueueId, currentConfigId,
              pendingChanges, lastSyncedState>>

\* reloadFromDisk(), run to completion
reloadFromDisk ==
  /\ loaded
  /\ IF disk[DefaultConfigPath] = NoFile
     THEN /\ lastOp' = Op("reloadFromDisk", FALSE, hasPendingChanges, "no")
          /\ editRun' = AfterSync(pendingChanges)
          /\ ReadFails
     ELSE LET xmlContent == disk[DefaultConfigPath]
              g == parseGlobalConfigFromXML(xmlContent)
              p == parseQueuesFromXML(xmlContent)
              q == syncQueuesFromXML(p.queues)
          IN /\ currentConfigId <= MaxConfigId
             /\ configFiles' = <<ConfigFile(currentConfigId, DefaultConfigPath, xmlContent, "true")>>
             /\ currentConfigId' = currentConfigId + 1
             /\ IF g.threw \/ p.threw
                THEN /\ lastOp' = Op("reloadFromDisk", FALSE, hasPendingChanges, "no")
                     /\ editRun' = AfterSync(pendingChanges)
                     /\ UNCHANGED <<queues, globalConfig, currentQueueId, pendingChanges,
                                    lastSyncedState>>
                ELSE /\ globalConfig' = Spread(globalConfig, g.config)
                     /\ queues' = q
                     /\ currentQueueId' = Len(q) + 1
                     /\ pendingChanges' = {}
                     /\ lastSyncedState' = CopyMap(q)
                     /\ editRun' = "clean"
                     /\ lastOp' = Op("reloadFromDisk", TRUE, hasPendingChanges, "no")
  /\ UNCHANGED <<disk, loaded, edits, rt>>

\* an update that replaces the settings: what the record omits goes back to
\* its default
ReplaceGlobalConfig(config) == Spread(GlobalConfigDefaults, config)

\* { ...this.globalConfig, ...config }
MergeGlobalConfig(config) == Spread(globalConfig, config)

\* updateGlobalConfig(config)
updateGlobalConfig(config) ==
  /\ loaded
  /\ globalConfig' = MergeGlobalConfig(config)
  /\ edits < MaxEdits
  /\ edits' = edits + 1
  /\ lastOp' = Spread(Op("updateGlobalConfig", TRUE, hasPendingChanges, "no"),
                      [config |-> config])
  /\ UNCHANGED <<queues, configFiles, currentQueueId, currentConfigId, pendingChanges,
                 lastSyncedState, disk, loaded, editRun, rt>>

\* the ids a request names: 1 (root after every load) and 3 (the first id
\* createQueue assigns after a one-queue file was loaded, absent until then; a
\* queue of the default set otherwise)
RequestIds == {1, 3}

Next ==
  \/ loadConfigFromDisk
  \/ \E insertQueue \in CreateInputs : createQueue(insertQueue)
  \/ \E id \in RequestIds, updateData \in UpdateInputs : updateQueue(id, updateData)
  \/ \E id \in RequestIds : deleteQueue(id)
  \/ applyPendingChanges
  \/ discardPendingChanges
  \/ reloadFromDisk
  \/ \E config \in GlobalInputs : updateGlobalConfig(config)

Spec == Init /\ [][Next]_vars

(***************************************************************************)
(* The parser and the generator on their own: generate then parse a queue  *)
(* list with its global settings; load a file into the store's queues and  *)
(* generate it again                                                       *)
(***************************************************************************)
\* a queue with every optional field populated
FullQueue(id, name, parent, weight, acl) ==
  Spread([InsertQueue(name, parent, weight, "drf") EXCEPT
            !.minMemory = N(1024), !.minVcores = N(1),
            !.maxMemory = N(2048), !.maxVcores = N(2),
            !.maxRunningApps = N(10), !.maxAMShare = 5,
            !.allowPreemptionFrom = "true", !.allowPreemptionTo = "true",
            !.aclSubmitApps = acl, !.aclAdministerApps = acl],
         [id |-> id])

RootQueue == Spread(InsertQueue("root", Null, N(1), "fair"), [id |-> 1])

Weights == {N(1), N(4), 25}
Acls == {"alice", "alice,bob"}

\* root, a fully populated child, and possibly a plain sibling
RTQueueLists ==
  {<<RootQueue, FullQueue(2, "etl", "root", w, acl)>> \o more :
     w \in Weights, acl \in Acls,
     more \in {<<>>, <<Spread(InsertQueue("batch", "root", N(1), "fair"), [id |-> 3])>>}}

\* queue lists for the emission rules: a root that carries ACLs and
\* preemption flags, children with the flags false and unset and with ACLs
\* at their default
EmissionQueueLists ==
  {<<[RootQueue EXCEPT !.aclSubmitApps = "alice", !.aclAdministerApps = "*",
                       !.allowPreemptionFrom = pf, !.allowPreemptionTo = pt],
     Spread([InsertQueue("etl", "root", N(4), "drf") EXCEPT
               !.allowPreemptionFrom = pt, !.allowPreemptionTo = pf,
               !.aclSubmitApps = acl, !.aclAdministerApps = "bob"],
            [id |-> 2])>> :
     pf \in {"true", "false"}, pt \in {Null, "false", "true"}, acl \in {Null, "*", ""}}

\* queue lists for the resource pairs: a child with both parts of each bound
\* set, to positive values and to 0
ResourceQueueLists ==
  {<<RootQueue,
     Spread([InsertQueue("etl", "root", N(4), "drf") EXCEPT
               !.minMemory = min[1], !.minVcores = min[2],
               !.maxMemory = max[1], !.maxVcores = max[2]],
            [id |-> 2])>> :
     min \in {<<N(1024), N(1)>>, <<N(1024), 0>>, <<0, N(1)>>, <<0, 0>>},
     max \in {<<N(2048), N(2)>>, <<N(2048), 0>>}}

RTGlobals ==
  {[id |-> 1, defaultQueueSchedulingPolicy |-> policy, userMaxAppsDefault |-> umad,
    queueMaxAppsDefault |-> qmad, queueMaxAMShareDefault |-> NullNum,
    queuePlacementRules |-> rules, defaultQueue |-> dq] :
     policy \in {"fair", "drf"}, umad \in {N(5), N(9)}, qmad \in {NullNum, N(100)},
     rules \in {<<"specified", "user", "default">>, <<"specified">>},
     dq \in {"default", "etl"}}

\* "4.0", "4", "2.5", "1.0", "1"
WeightLiterals ==
  {NumText(4, <<0>>), NumText(4, <<>>), NumText(2, <<5>>), NumText(1, <<0>>), NumText(1, <<>>)}

\* files with one queue under the implicit root, or with an explicit root
\* element around it
WeightFiles ==
  {Document(IF explicitRoot
            THEN <<[QueueElem("root") EXCEPT
                      !.queue = <<[QueueElem("etl") EXCEPT !.weight = w]>>]>>
            ELSE <<[QueueElem("etl") EXCEPT !.weight = w]>>,
            NumText(5, <<>>), "fair", <<>>) :
     w \in WeightLiterals, explicitRoot \in BOOLEAN}

\* files with two queue elements of one name that differ in their fields
DuplicateFiles ==
  {Document(<<[QueueElem("etl") EXCEPT !.weight = w[1]],
              [QueueElem("etl") EXCEPT !.weight = w[2], !.schedulingPolicy = "drf",
                                       !.maxRunningApps = NumText(10, <<>>)]>>,
            NumText(5, <<>>), "fair", <<>>) :
     w \in {x \in WeightLiterals \X WeightLiterals : x[1] # x[2]}}

\* files without a queue element, with one empty queue element, with a queue
\* element that has no name attribute
EdgeFiles ==
  {Document(queue, NumText(5, <<>>), "fair", <<>>) :
     queue \in {<<>>,
                <<QueueElem("")>>,
                <<[QueueElem("") EXCEPT !.weight = NumText(4, <<>>)]>>,
                <<QueueElem(""), [QueueElem("etl") EXCEPT !.weight = NumText(4, <<>>)]>>}}

\* placement policies: the default order, another order, a repeated name, one
\* rule, rules with create="false", a default rule with and without its queue
\* attribute
RuleLists ==
  {<<Rule("specified", "", ""), Rule("user", "", ""), Rule("default", "etl", "")>>,
   <<Rule("user", "", ""), Rule("primaryGroup", "", ""), Rule("specified", "", "")>>,
   <<Rule("default", "etl", ""), Rule("user", "", ""), Rule("default", "etl", "")>>,
   <<Rule("reject", "", "")>>,
   <<Rule("specified", "", "false"), Rule("user", "", "false"), Rule("default", "etl", "")>>,
   <<Rule("specified", "", ""), Rule("default", "etl", "false")>>,
   <<Rule("specified", "", ""), Rule("default", "", "")>>}

\* files with one queue and a placement policy
PlacementFiles ==
  {Document(<<[QueueElem("etl") EXCEPT !.weight = NumText(4, <<>>)]>>,
            NumText(5, <<>>), "fair", rules) : rules \in RuleLists}

\* files with nested queue elements: three levels with siblings at each level,
\* and a named element inside an element without a name attribute
HierarchyFiles ==
  {Document(queue, NumText(5, <<>>), "fair", <<>>) :
     queue \in {<<[QueueElem("etl") EXCEPT
                    !.queue = <<[QueueElem("daily") EXCEPT
                                   !.queue = <<QueueElem("hourly")>>],
                                QueueElem("adhoc")>>],
                  QueueElem("batch")>>,
                <<[QueueElem("") EXCEPT !.queue = <<QueueElem("daily")>>],
                  QueueElem("batch")>>}}

\* files whose etl element has a minResources or maxResources text that the
\* pair pattern does not match: one part only, the parts in the other order,
\* a part that is no number; the other bound of etl and the sibling batch are
\* well-formed
MalformedResources ==
  {<<ResPart(N(1024), "mb")>>,
   <<ResPart(N(1), "vcores"), ResPart(N(1024), "mb")>>,
   <<[lit |-> JunkText, unit |-> "mb"], ResPart(N(1), "vcores")>>}

LenientFiles ==
  {Document(<<[QueueElem("etl") EXCEPT !.minResources = r, !.maxResources = Res(2048, 2)],
              [QueueElem("batch") EXCEPT !.minResources = Res(1024, 1)]>>,
            NumText(5, <<>>), "fair", <<>>) : r \in MalformedResources}
  \cup
  {Document(<<[QueueElem("etl") EXCEPT !.minResources = Res(1024, 1), !.maxResources = r],
              [QueueElem("batch") EXCEPT !.maxResources = Res(2048, 2)]>>,
            NumText(5, <<>>), "fair", <<>>) : r \in MalformedResources}

RTFiles ==
  WeightFiles \cup DuplicateFiles \cup EdgeFiles \cup PlacementFiles
  \cup HierarchyFiles \cup LenientFiles

InitRT ==
  /\ queues = <<>>
  /\ configFiles = <<>>
  /\ globalConfig = GlobalConfigDefaults
  /\ currentQueueId = 1
  /\ currentConfigId = 1
  /\ pendingChanges = {}
  /\ lastSyncedState = <<>>
  /\ disk = [p \in Paths |-> NoFile]
  /\ loaded = FALSE
  /\ edits = 0
  /\ editRun = "clean"
  /\ lastOp = Op("new", TRUE, FALSE, "no")
  /\ \/ \E Q \in RTQueueLists, G \in RTGlobals : rt = [phase |-> "input", Q |-> Q, G |-> G]
     \/ \E Q \in EmissionQueueLists \cup ResourceQueueLists :
          rt = [phase |-> "input", Q |-> Q, G |-> GlobalConfigDefaults]
     \/ \E xml \in RTFiles : rt = [phase |-> "file", xml |-> xml]

\* generateXMLFromQueues(Q, G)
RTGenerate ==
  /\ rt.phase = "input"
  /\ LET gen == generateXMLFromQueues(rt.Q, rt.G)
     IN rt' = IF gen.threw THEN [phase |-> "threw"]
              ELSE [phase |-> "generated", Q |-> rt.Q, G |-> rt.G, xml |-> gen.doc]
  /\ UNCHANGED storeVars

\* parseQueuesFromXML and parseGlobalConfigFromXML of the generated text
RTParse ==
  /\ rt.phase = "generated"
  /\ LET p == parseQueuesFromXML(rt.xml)
         g == parseGlobalConfigFromXML(rt.xml)
     IN rt' = IF p.threw \/ g.threw THEN [phase |-> "threw"]
              ELSE [phase |-> "parsed", Q |-> rt.Q, G |-> rt.G, xml |-> rt.xml,
                    parsedQueues |-> p.queues, parsedConfig |-> g.config]
  /\ UNCHANGED storeVars

\* a file parsed and stored: parseQueuesFromXML, then syncQueuesFromXML
RTLoad ==
  /\ rt.phase = "file"
  /\ LET p == parseQueuesFromXML(rt.xml)
         g == parseGlobalConfigFromXML(rt.xml)
     IN rt' = IF p.threw \/ g.threw THEN [phase |-> "threw"]
              ELSE [phase |-> "stored", xml |-> rt.xml, parsed |-> p.queues,
                    queues |-> syncQueuesFromXML(p.queues),
                    config |-> Spread(GlobalConfigDefaults, g.config)]
  /\ UNCHANGED storeVars

\* the stored queues generated again
RTRegenerate ==
  /\ rt.phase = "stored"
  /\ LET gen == generateXMLFromQueues(rt.queues, rt.config)
     IN rt' = IF gen.threw THEN [phase |-> "threw"]
              ELSE [phase |-> "regenerated", xml |-> rt.xml, queues |-> rt.queues,
                    out |-> gen.doc]
  /\ UNCHANGED storeVars

NextRT ==
  \/ RTGenerate
  \/ RTParse
  \/ RTLoad
  \/ RTRegenerate

SpecRT == InitRT /\ [][NextRT]_vars

(***************************************************************************)
(* Properties of the store                                                 *)
(***************************************************************************)
ApplyDone == lastOp.op = "applyPendingChanges"
DiscardDone == lastOp.op = "discardPendingChanges"
ReloadDone == lastOp.op = "reloadFromDisk"

\* C1: a successful applyPendingChanges on a Dirty store writes the document
\* generated from the current queues and global settings to the configured
\* path, makes the baseline equal to the queues, empties the pending set and
\* leaves the queues unchanged
C1_ApplyWritesAndSyncs ==
  [][(ApplyDone' /\ lastOp'.ok /\ ~NothingPending) =>
       /\ lastOp'.wrote = "yes"
       /\ disk' = [disk EXCEPT ![DefaultConfigPath] =
                     generateXMLFromQueues(queues, globalConfig).doc]
       /\ lastSyncedState' = queues
       /\ pendingChanges' = {}
       /\ queues' = queues]_vars

C1_Witness ==
  /\ ApplyDone /\ lastOp.ok /\ lastOp.dirty /\ lastOp.wrote = "yes"
  /\ Len(queues) > 2
  /\ disk[DefaultConfigPath] = generateXMLFromQueues(queues, globalConfig).doc

\* C2: when the disk write of applyPendingChanges fails the call fails and
\* the pending set, the queues and the baseline are what they were
C2_FailedApplyKeepsState ==
  [][(ApplyDone' /\ lastOp'.wrote = "failed") =>
       /\ ~lastOp'.ok
       /\ pendingChanges' = pendingChanges /\ pendingChanges' # {}
       /\ queues' = queues
       /\ lastSyncedState' = lastSyncedState]_vars

C2_Witness ==
  /\ ApplyDone /\ ~lastOp.ok /\ lastOp.wrote = "failed"
  /\ hasPendingChanges
  /\ queues # lastSyncedState

\* C3: discardPendingChanges, in any state, makes the queues equal to the
\* baseline, leaves the baseline alone and empties the pending set; a queue
\* created since the baseline was taken is gone
C3_DiscardRestoresBaseline ==
  [][DiscardDone' =>
       /\ queues' = lastSyncedState
       /\ lastSyncedState' = lastSyncedState
       /\ pendingChanges' = {}
       /\ \A id \in Ids(queues) \ Ids(lastSyncedState) : ~MapHas(queues', id)]_vars

C3_Witness ==
  /\ DiscardDone /\ lastOp.dirty
  /\ edits > 0
  /\ queues = lastSyncedState /\ queues # <<>>

\* C5 as stated: after any create/update/delete calls on a Clean store,
\* hasPendingChanges() is true
C5_AnyEditCallMakesDirty ==
  editRun \in {"called", "edited"} => hasPendingChanges

\* C5 as amended: after create/update/delete calls on a Clean store of which
\* at least one found its queue (or created one), hasPendingChanges() is true
C5_SuccessfulEditMakesDirty ==
  editRun = "edited" => hasPendingChanges

C5_Witness ==
  /\ editRun = "edited" /\ lastOp.op = "deleteQueue" /\ lastOp.ok
  /\ hasPendingChanges

\* C6: right after a successful applyPendingChanges or a
\* discardPendingChanges, hasPendingChanges() is false and
\* getPendingChangesCount() is 0
C6_CleanAfterApplyOrDiscard ==
  ((ApplyDone /\ lastOp.ok) \/ DiscardDone) =>
    (~hasPendingChanges /\ getPendingChangesCount = 0)

C6_Witness ==
  /\ ApplyDone /\ lastOp.ok /\ lastOp.dirty /\ edits = MaxEdits
  /\ ~hasPendingChanges

\* C7: applyPendingChanges on a Clean store writes nothing, succeeds and
\* leaves queues, baseline, global settings, config-file records and the file
\* unchanged
C7_ApplyOnCleanIsNoop ==
  [][(ApplyDone' /\ pendingChanges = {}) =>
       /\ lastOp'.ok /\ lastOp'.wrote = "no"
       /\ UNCHANGED <<queues, lastSyncedState, globalConfig, configFiles, disk,
                      pendingChanges>>]_vars

C7_Witness ==
  /\ ApplyDone /\ lastOp.ok /\ ~lastOp.dirty /\ lastOp.wrote = "no"
  /\ configFiles # <<>>

\* a queue's content for comparison: the fields without the id, an unset field
\* read as its default (weight 1.0, policy fair, preemption false, ACL "*")
Effective(q) ==
  [name |-> q.name,
   parent |-> OrStr(q.parent, Null),
   weight |-> IF q.weight = NullNum THEN N(1) ELSE q.weight,
   schedulingPolicy |-> OrStr(q.schedulingPolicy, "fair"),
   minMemory |-> q.minMemory, minVcores |-> q.minVcores,
   maxMemory |-> q.maxMemory, maxVcores |-> q.maxVcores,
   maxRunningApps |-> q.maxRunningApps, maxAMShare |-> q.maxAMShare,
   allowPreemptionFrom |-> BoolText(q.allowPreemptionFrom),
   allowPreemptionTo |-> BoolText(q.allowPreemptionTo),
   aclSubmitApps |-> OrStr(q.aclSubmitApps, "*"),
   aclAdministerApps |-> OrStr(q.aclAdministerApps, "*")]

Names(list) == {list[i].name : i \in 1..Len(list)}
Contents(list) == {Effective(list[i]) : i \in 1..Len(list)}
FirstNamed(list, name) ==
  list[CHOOSE i \in 1..Len(list) :
         list[i].name = name /\ \A j \in 1..(i-1) : list[j].name # name]

\* C4: reloadFromDisk, in any state with a readable well-formed document on
\* disk, succeeds and makes queues and baseline the deduplicated parse of the
\* document (one queue per name, that of its first record), the global
\* settings the parsed ones, and the pending set empty
C4_ReloadReplacesState ==
  [][(ReloadDone' /\ disk[DefaultConfigPath] # NoFile /\ disk[DefaultConfigPath].ok) =>
       LET parsed == parseQueuesFromXML(disk[DefaultConfigPath]).queues
       IN /\ lastOp'.ok
          /\ lastSyncedState' = queues'
          /\ pendingChanges' = {}
          /\ globalConfig' = parseGlobalConfigFromXML(disk[DefaultConfigPath]).config
          /\ Names(queues') = Names(parsed)
          /\ Cardinality(Names(queues')) = Len(queues')
          /\ \A i \in 1..Len(queues') :
               Effective(queues'[i]) = Effective(FirstNamed(parsed, queues'[i].name))]_vars

C4_Witness ==
  /\ ReloadDone /\ lastOp.ok /\ lastOp.dirty
  /\ edits = MaxEdits
  /\ queues = lastSyncedState /\ Len(queues) > 1
  /\ ~hasPendingChanges

\* C8: a successful applyPendingChanges followed by reloadFromDisk yields a
\* queue set with the names, parents and field values that were in memory
\* before the apply, and nothing is pending
C8_ApplyThenReloadKeepsQueues ==
  [][(ApplyDone /\ lastOp.ok /\ lastOp.wrote = "yes" /\ ReloadDone') =>
       /\ lastOp'.ok
       /\ Contents(queues') = Contents(queues)
       /\ pendingChanges = {} /\ pendingChanges' = {}]_vars

(***************************************************************************)
(* Properties of the parser and the generator                              *)
(***************************************************************************)
HasRoot(list) == \E i \in 1..Len(list) : list[i].name = "root"

\* a child with resource bounds, maxRunningApps, maxAMShare, both preemption
\* flags and non-default ACLs
HasFullChild(list) ==
  \E i \in 1..Len(list) :
    /\ list[i].name # "root"
    /\ Truthy(list[i].minMemory) /\ Truthy(list[i].minVcores)
    /\ Truthy(list[i].maxMemory) /\ Truthy(list[i].maxVcores)
    /\ Truthy(list[i].maxRunningApps) /\ Truthy(list[i].maxAMShare)
    /\ list[i].allowPreemptionFrom # Null /\ list[i].allowPreemptionTo # Null
    /\ OrStr(list[i].aclSubmitApps, "*") # "*"
    /\ OrStr(list[i].aclAdministerApps, "*") # "*"

GlobalFields(g) ==
  [defaultQueueSchedulingPolicy |-> g.defaultQueueSchedulingPolicy,
   userMaxAppsDefault |-> g.userMaxAppsDefault,
   queueMaxAppsDefault |-> g.queueMaxAppsDefault,
   queueMaxAMShareDefault |-> g.queueMaxAMShareDefault,
   queuePlacementRules |-> g.queuePlacementRules,
   defaultQueue |-> g.defaultQueue]

\* C9: for a queue list Q with a root and a fully populated child and any
\* global settings G, parsing the text generated from (Q, G) gives a queue
\* list with the names, parents and field values of Q and no extra node, and
\* global settings field-equal to G
C9_RoundTripIdentity ==
  (rt.phase = "parsed" /\ HasRoot(rt.Q) /\ HasFullChild(rt.Q)) =>
     /\ Len(rt.parsedQueues) = Len(rt.Q)
     /\ Contents(rt.parsedQueues) = Contents(rt.Q)
     /\ GlobalFields(rt.parsedConfig) = GlobalFields(rt.G)

RECURSIVE Flatten(_)
\* the queue elements of a document, nested ones included
Flatten(elems) ==
  IF elems = <<>> THEN <<>>
  ELSE <<Head(elems)>> \o Flatten(Head(elems).queue) \o Flatten(Tail(elems))

Integral(lit) == lit.kind = "num" /\ (lit.fp = <<>> \/ lit.fp = <<0>>)

\* C10: a weight parsed from a literal of integral value is generated again
\* with the literal it had: with the decimal point when it was written with
\* one ("4.0"), without it when it was written without ("4")
C10_DecimalLiteralPreserved ==
  rt.phase = "regenerated" =>
    LET in == Flatten(rt.xml.queue)
        out == Flatten(rt.out.queue)
    IN \A i \in 1..Len(in) :
         (in[i].name # "root" /\ Integral(in[i].weight)) =>
           \E j \in 1..Len(out) :
             out[j].name = in[i].name /\ out[j].weight = in[i].weight

(***************************************************************************)
(* Invariants of the queue set                                             *)
(***************************************************************************)
RECURSIVE ReachesTop(_, _, _)
\* following parents from the queue named name ends at a queue without
\* parent within fuel steps
ReachesTop(list, name, fuel) ==
  \E i \in 1..Len(list) :
    /\ list[i].name = name
    /\ \/ ~TruthyStr(list[i].parent)
       \/ fuel > 0 /\ ReachesTop(list, list[i].parent, fuel - 1)

\* C11: in every state of a loaded store every non-root queue's parent names
\* a queue of the set, the parent relation has no cycle, and exactly one
\* queue is named root and it has no parent
C11_HierarchyInvariant ==
  loaded =>
    /\ Cardinality({i \in 1..Len(queues) : queues[i].name = "root"}) = 1
    /\ \A i \in 1..Len(queues) :
         IF queues[i].name = "root" THEN ~TruthyStr(queues[i].parent)
         ELSE /\ queues[i].parent \in Names(queues)
              /\ ReachesTop(queues, queues[i].name, Len(queues))

\* C12: in every state of a loaded store no two queues have the same name
C12_NameUniqueness ==
  loaded => Cardinality(Names(queues)) = Len(queues)

(***************************************************************************)
(* Properties of loading a document                                        *)
(***************************************************************************)
\* C13: when a parsed list with several records of one name is stored, the
\* store holds exactly one queue per name, with the fields of the first
\* record of that name in document order
C13_FirstOccurrenceWins ==
  rt.phase = "stored" =>
    /\ Names(rt.queues) = Names(rt.parsed)
    /\ Cardinality(Names(rt.queues)) = Len(rt.queues)
    /\ \A i \in 1..Len(rt.queues) :
         Effective(rt.queues[i]) = Effective(FirstNamed(rt.parsed, rt.queues[i].name))

C13_Witness ==
  /\ rt.phase = "stored"
  /\ \E i \in 1..Len(rt.parsed), j \in 1..Len(rt.parsed) :
       /\ i < j /\ rt.parsed[i].name = "etl" /\ rt.parsed[j].name = "etl"
       /\ rt.parsed[i].weight = N(4) /\ rt.parsed[j].weight = 25
  /\ \E k \in 1..Len(rt.queues) : rt.queues[k].name = "etl" /\ rt.queues[k].weight = N(4)
  /\ Len(rt.queues) = 2

IsImplicitRoot(q) ==
  /\ q.name = "root" /\ ~TruthyStr(q.parent)
  /\ q.weight = N(1) /\ q.schedulingPolicy = "fair"

\* C14 as stated: a document with at least one queue element parses to a list
\* whose first record is root (weight 1.0, fair, no parent); a document with
\* no queue element parses to the empty list
C14_RootForAnyQueueElement ==
  rt.phase = "stored" =>
    IF rt.xml.queue # <<>>
    THEN Len(rt.parsed) > 0 /\ IsImplicitRoot(rt.parsed[1])
    ELSE rt.parsed = <<>>

\* C14 amended: the root is the first record unless the only queue element
\* is an empty one (no attribute, no content); for that document, as for one
\* without a queue element, the list is empty
C14_RootSynthesis ==
  rt.phase = "stored" =>
    IF rt.xml.queue # <<>> /\ rt.xml.queue # <<QueueElem("")>>
    THEN Len(rt.parsed) > 0 /\ IsImplicitRoot(rt.parsed[1])
    ELSE rt.parsed = <<>>

C14_Witness ==
  /\ rt.phase = "stored"
  /\ Len(rt.xml.queue) = 1 /\ rt.xml.queue[1].name = "etl"
  /\ Len(rt.parsed) = 2 /\ IsImplicitRoot(rt.parsed[1]) /\ rt.parsed[2].name = "etl"

\* qs holds one queue per name of the parsed list, with the fields of the
\* first record of that name
IsDedupOf(qs, parsed) ==
  /\ Names(qs) = Names(parsed)
  /\ Cardinality(Names(qs)) = Len(qs)
  /\ \A i \in 1..Len(qs) : Effective(qs[i]) = Effective(FirstNamed(parsed, qs[i].name))

LoadDone == lastOp.op = "load"

\* C15: once the initial load has finished the store is Clean; when the file
\* could not be read, queues and baseline are the parse of the canonical
\* default document and that document is on disk at the configured path; when
\* it could be read, queues and baseline are the deduplicated parse of the file
C15_InitialLoad ==
  LoadDone =>
    /\ pendingChanges = {}
    /\ queues = lastSyncedState
    /\ IF lastOp.wrote # "no"
       THEN /\ IsDedupOf(queues, parseQueuesFromXML(DefaultXMLContent).queues)
            /\ disk[DefaultConfigPath] = DefaultXMLContent
       ELSE IsDedupOf(queues, parseQueuesFromXML(disk[DefaultConfigPath]).queues)

\* C16: a reloadFromDisk that cannot read the file fails, and queues,
\* baseline, pending set, global settings and config-file records are what
\* they were before the call
C16_ReloadReadFailureKeepsState ==
  [][(ReloadDone' /\ disk[DefaultConfigPath] = NoFile) =>
       /\ ~lastOp'.ok
       /\ UNCHANGED <<queues, lastSyncedState, pendingChanges, globalConfig, configFiles>>]_vars

C16_Witness ==
  /\ ReloadDone /\ ~lastOp.ok /\ lastOp.dirty
  /\ disk[DefaultConfigPath] = NoFile
  /\ configFiles # <<>> /\ queues # lastSyncedState

EditById == lastOp.op \in {"updateQueue", "deleteQueue"}

\* C17: updateQueue or deleteQueue with an id that is in no queue of the
\* store reports not-found and leaves queues, baseline and pending set as
\* they were, so a Clean store stays Clean
C17_NotFoundKeepsState ==
  [][(EditById' /\ ~MapHas(queues, lastOp'.id)) =>
       /\ ~lastOp'.ok
       /\ UNCHANGED <<queues, lastSyncedState, pendingChanges>>]_vars

C17_Witness ==
  /\ lastOp.op = "deleteQueue" /\ ~lastOp.ok /\ lastOp.id = 3
  /\ ~MapHas(queues, 3)
  /\ ~hasPendingChanges /\ queues = lastSyncedState /\ queues # <<>>

(***************************************************************************)
(* HTTP routes (server/routes): a request arrives, then its handler runs   *)
(* to completion on the store                                              *)
(***************************************************************************)
\* /^[a-zA-Z0-9_-]+$/ on the names the requests use: of these only
\* "bad name" (a space) and "" do not match
WellFormedNames == {"root", "batch", "etl", "analytics", "production", "development", "default"}
NameMatches(name) == name \in WellFormedNames

\* queueFormSchema.parse(body), or queueFormSchema.partial().parse(body):
\* TRUE when no ZodError is thrown. schedulingPolicy and parent are nullable
\* strings of the table schema: any string passes
queueFormSchema(body, partial) ==
  LET has(f) == f \in DOMAIN body
      atLeast(f, min) == has(f) => (body[f] # NullNum /\ body[f] # NaN /\ body[f] >= min)
  IN /\ (~partial => has("name") /\ has("weight"))
     /\ (has("name") => NameMatches(body.name))
     /\ atLeast("weight", 1)
     /\ atLeast("minMemory", 0) /\ atLeast("minVcores", 0)
     /\ atLeast("maxMemory", 0) /\ atLeast("maxVcores", 0)
     /\ atLeast("maxRunningApps", N(1))
     /\ atLeast("maxAMShare", 0)
     /\ (has("maxAMShare") => body.maxAMShare <= N(1))

\* the InsertQueue createQueue stores for a validated body: the keys the body
\* lacks become null
Complete(body) == Spread(InsertQueue(Null, Null, NullNum, Null), body)

\* validateXML(content).isValid
validateXML(content) == content.ok /\ content.allocations

PostQueueBodies ==
  {[name |-> "batch", parent |-> "root", weight |-> N(1)],
   [name |-> "bad name", parent |-> "root", weight |-> N(1)],
   [name |-> "batch", parent |-> "root", weight |-> 0],
   [name |-> "batch", parent |-> "root", weight |-> N(1), schedulingPolicy |-> "capacity"]}

PutQueueBodies ==
  {[weight |-> N(4)], [weight |-> 0], [name |-> "bad name"],
   [schedulingPolicy |-> "capacity"]}

PostConfigBodies ==
  {[content |-> content, filePath |-> filePath] :
     content \in {DocAnalytics, DefaultXMLContent, DocMalformed},
     filePath \in {"", DefaultConfigPath}}

Request(route, id, body) ==
  [phase |-> "request", route |-> route, id |-> id, body |-> body, seq |-> edits]

Requests ==
  {Request("POST /api/queues", 0, body) : body \in PostQueueBodies}
  \cup {Request("PUT /api/queues/:id", id, body) : id \in RequestIds, body \in PutQueueBodies}
  \cup {Request("DELETE /api/queues/:id", id, <<>>) : id \in RequestIds}
  \cup {Request("POST /api/config", 0, body) : body \in PostConfigBodies}

\* a request arrives
Receive ==
  /\ loaded
  /\ edits < MaxEdits
  /\ rt.phase = "request" => rt.seq # edits
  /\ \E request \in Requests : rt' = request
  /\ UNCHANGED storeVars

\* the request the next handler serves
Pending(route) == rt.phase = "request" /\ rt.route = route /\ rt.seq = edits

\* res.status(400): the ZodError is caught, the store was not called
BadRequest(route) ==
  /\ edits < MaxEdits
  /\ edits' = edits + 1
  /\ lastOp' = Op(route, FALSE, hasPendingChanges, "no")
  /\ UNCHANGED <<queues, configFiles, globalConfig, currentQueueId, currentConfigId,
                 pendingChanges, lastSyncedState, disk, loaded, editRun, rt>>

\* app.post("/api/queues")
PostQueue ==
  /\ Pending("POST /api/queues")
  /\ IF queueFormSchema(rt.body, FALSE)
     THEN createQueue(Complete(rt.body))
     ELSE BadRequest("POST /api/queues")

\* app.put("/api/queues/:id")
PutQueue ==
  /\ Pending("PUT /api/queues/:id")
  /\ IF queueFormSchema(rt.body, TRUE)
     THEN updateQueue(rt.id, rt.body)
     ELSE BadRequest("PUT /api/queues/:id")

\* app.delete("/api/queues/:id")
DeleteQueue ==
  /\ Pending("DELETE /api/queues/:id")
  /\ deleteQueue(rt.id)

\* app.post("/api/config"): the record is saved; a valid document is written
\* to the target path and its queues are synced into the store
PostConfig ==
  /\ Pending("POST /api/config")
  /\ edits < MaxEdits
  /\ currentConfigId <= MaxConfigId
  /\ LET content == rt.body.content
         targetPath == OrStr(rt.body.filePath, RoutesConfigPath)
         valid == validateXML(content)
         q == syncQueuesFromXML(parseQueuesFromXML(content).queues)
     IN /\ configFiles' = Append(configFiles,
                                 ConfigFile(currentConfigId, targetPath, content,
                                            IF valid THEN "true" ELSE "false"))
        /\ currentConfigId' = currentConfigId + 1
        /\ IF ~valid
           THEN /\ lastOp' = Op("POST /api/config", TRUE, hasPendingChanges, "no")
                /\ UNCHANGED <<queues, currentQueueId, disk>>
           ELSE \E writeOk \in BOOLEAN :
                  IF writeOk
                  THEN /\ disk' = [disk EXCEPT ![targetPath] = content]
                       /\ queues' = q
                       /\ currentQueueId' = Len(q) + 1
                       /\ lastOp' = Op("POST /api/config", TRUE, hasPendingChanges, "yes")
                  ELSE /\ \E left \in FailedWrite(disk[targetPath]) :
                            disk' = [disk EXCEPT ![targetPath] = left]
                       /\ lastOp' = Op("POST /api/config", FALSE, hasPendingChanges, "failed")
                       /\ UNCHANGED <<queues, currentQueueId>>
  /\ edits' = edits + 1
  /\ UNCHANGED <<globalConfig, pendingChanges, lastSyncedState, loaded, editRun, rt>>

\* POST /api/pending-changes/discard: the request has no body and the
\* handler calls storage.discardPendingChanges()
PostDiscard ==
  /\ rt.phase = "request" => rt.seq # edits
  /\ discardPendingChanges

NextRoutes ==
  \/ loadConfigFromDisk
  \/ Receive
  \/ PostQueue
  \/ PutQueue
  \/ DeleteQueue
  \/ PostConfig
  \/ PostDiscard

SpecRoutes == Init /\ [][NextRoutes]_vars

(***************************************************************************)
(* Properties of the routes                                                *)
(***************************************************************************)
\* a body with a name of bad format, a weight that is not positive, or a
\* scheduling policy outside {fair, fifo, drf}
ViolatesDocumentModel(body) ==
  \/ "name" \in DOMAIN body /\ ~NameMatches(body.name)
  \/ "weight" \in DOMAIN body /\ body.weight <= 0
  \/ /\ "schedulingPolicy" \in DOMAIN body
     /\ body.schedulingPolicy \notin {"fair", "fifo", "drf", Null}

\* C18: a queue create or update request whose body has a bad name, an
\* out-of-range weight or an unknown scheduling policy is rejected before the
\* store is touched: queues, baseline and pending set are unchanged
C18_InvalidPayloadRejected ==
  [][(/\ Pending("POST /api/queues") \/ Pending("PUT /api/queues/:id")
      /\ edits' = edits + 1
      /\ ViolatesDocumentModel(rt.body)) =>
       UNCHANGED <<queues, lastSyncedState, pendingChanges>>]_vars

\* C19: saving a valid document through POST /api/config leaves the store as
\* reloadFromDisk would on that text: queues and baseline are the
\* deduplicated parse, the global settings are the parsed ones, the pending
\* set is empty
C19_RawSaveActsAsReload ==
  [][(/\ Pending("POST /api/config")
      /\ edits' = edits + 1
      /\ validateXML(rt.body.content)
      /\ lastOp'.wrote = "yes") =>
       /\ IsDedupOf(queues', parseQueuesFromXML(rt.body.content).queues)
       /\ lastSyncedState' = queues'
       /\ pendingChanges' = {}
       /\ GlobalFields(globalConfig') =
            GlobalFields(parseGlobalConfigFromXML(rt.body.content).config)]_vars

(***************************************************************************)
(* applyPendingChanges on the event loop                                   *)
(***************************************************************************)
\* An async method runs up to its next await and is then suspended; any
\* other call of the store may run before it resumes. rt holds the frame of
\* the suspended call: pc is the await it waits at, allQueues, xmlContent and
\* configFile are its locals.
Idle == rt.phase = "none"
Suspended(pc) == rt.phase = "apply" /\ rt.pc = pc

\* the catch block: the error is logged and thrown again
applyThrows(wrote) ==
  /\ rt' = [phase |-> "none"]
  /\ lastOp' = Op("applyPendingChanges", FALSE, TRUE, wrote)
  /\ editRun' = AfterSync(pendingChanges)
  /\ UNCHANGED <<pendingChanges, lastSyncedState>>

\* the end of the try block: the pending set is cleared and the baseline is
\* rebuilt from this.queues as they are now
applyReturns(wrote) ==
  /\ CommitApply
  /\ rt' = [phase |-> "none"]
  /\ lastOp' = Op("applyPendingChanges", TRUE, TRUE, wrote)
  /\ editRun' = AfterSync(pendingChanges')

\* the call: the size test, the snapshot of this.queues, await import(...)
applyCall ==
  /\ loaded
  /\ Idle
  /\ IF NothingPending
     THEN /\ lastOp' = Op("applyPendingChanges", TRUE, FALSE, "no")
          /\ editRun' = AfterSync(pendingChanges)
          /\ UNCHANGED rt
     ELSE /\ rt' = [phase |-> "apply", pc |-> "import", allQueues |-> queues]
          /\ UNCHANGED <<lastOp, editRun>>
  /\ UNCHANGED <<queues, configFiles, globalConfig, currentQueueId, currentConfigId,
                 pendingChanges, lastSyncedState, disk, loaded, edits>>

\* after the import: generateXMLFromQueues(allQueues, this.globalConfig),
\* await this.getConfigFile()
applyGenerate ==
  /\ Suspended("import")
  /\ LET gen == generateXMLFromQueues(rt.allQueues, globalConfig)
     IN IF gen.threw
        THEN applyThrows("no")
        ELSE /\ rt' = Spread(rt, [pc |-> "getConfigFile", xmlContent |-> gen.doc,
                                  configFile |-> getConfigFile])
             /\ UNCHANGED <<pendingChanges, lastSyncedState, lastOp, editRun>>
  /\ UNCHANGED <<queues, configFiles, globalConfig, currentQueueId, currentConfigId,
                 disk, loaded, edits>>

\* after getConfigFile: await this.saveConfigFile(...), or, without a record,
\* the rest of the method
applySave ==
  /\ Suspended("getConfigFile")
  /\ IF rt.configFile = NoConfigFile
     THEN /\ applyReturns("no")
          /\ UNCHANGED <<configFiles, currentConfigId>>
     ELSE /\ currentConfigId <= MaxConfigId
          /\ configFiles' = Append(configFiles,
               ConfigFile(currentConfigId, rt.configFile.filePath, rt.xmlContent, "true"))
          /\ currentConfigId' = currentConfigId + 1
          /\ rt' = [rt EXCEPT !.pc = "saveConfigFile"]
          /\ UNCHANGED <<pendingChanges, lastSyncedState, lastOp, editRun>>
  /\ UNCHANGED <<queues, globalConfig, currentQueueId, disk, loaded, edits>>

\* after saveConfigFile: await this.writeConfigToDisk(filePath, xmlContent)
applyWrite ==
  /\ Suspended("saveConfigFile")
  /\ \E writeOk \in BOOLEAN :
       IF writeOk
       THEN /\ disk' = [disk EXCEPT ![rt.configFile.filePath] = rt.xmlContent]
            /\ rt' = [rt EXCEPT !.pc = "writeConfigToDisk"]
            /\ UNCHANGED <<pendingChanges, lastSyncedState, lastOp, editRun>>
       ELSE /\ \E left \in FailedWrite(disk[rt.configFile.filePath]) :
                 disk' = [disk EXCEPT ![rt.configFile.filePath] = left]
            /\ applyThrows("failed")
  /\ UNCHANGED <<queues, configFiles, globalConfig, currentQueueId, currentConfigId,
                 loaded, edits>>

\* after writeConfigToDisk: pendingChanges.clear(), the baseline is rebuilt
applyFinish ==
  /\ Suspended("writeConfigToDisk")
  /\ applyReturns("yes")
  /\ UNCHANGED <<queues, configFiles, globalConfig, currentQueueId, currentConfigId,
                 disk, loaded, edits>>

NextAsync ==
  \/ loadConfigFromDisk
  \/ \E insertQueue \in CreateInputs : createQueue(insertQueue)
  \/ \E id \in RequestIds, updateData \in UpdateInputs : updateQueue(id, updateData)
  \/ \E id \in RequestIds : deleteQueue(id)
  \/ applyCall
  \/ applyGenerate
  \/ applySave
  \/ applyWrite
  \/ applyFinish

SpecAsync == Init /\ [][NextAsync]_vars

\* the ids whose entry in the map now is not the entry of the snapshot
Raced(now, snapshot) ==
  {id \in Ids(now) \cup Ids(snapshot) :
     \/ MapHas(now, id) # MapHas(snapshot, id)
     \/ MapHas(now, id) /\ MapGet(now, id) # MapGet(snapshot, id)}

\* the snapshot with the entry of one id as it is now
WithEdit(snapshot, now, id) ==
  IF MapHas(now, id) THEN MapSet(snapshot, id, MapGet(now, id))
  ELSE MapDelete(snapshot, id)

\* the edit of the id is in the document: generating with it gives the same
\* document
InDocument(doc, snapshot, now, id) ==
  generateXMLFromQueues(WithEdit(snapshot, now, id), globalConfig).doc = doc

\* C20: when an applyPendingChanges call that was suspended returns, every
\* queue edited while it was suspended is either in the document it wrote or
\* still in the pending set
C20_ApplyKeepsConcurrentEdit ==
  [][(rt.phase = "apply" /\ rt'.phase = "none" /\ lastOp'.ok) =>
       \A id \in Raced(queues, rt.allQueues) :
          \/ id \in pendingChanges'
          \/ /\ lastOp'.wrote = "yes"
             /\ InDocument(rt.xmlContent, rt.allQueues, queues, id)]_vars

(***************************************************************************)
(* The global settings                                                     *)
(***************************************************************************)
\* partial records a caller passes to updateGlobalConfig
GlobalPartials ==
  {[userMaxAppsDefault |-> N(9)],
   [defaultQueueSchedulingPolicy |-> "fifo"],
   [queueMaxAppsDefault |-> N(20), queueMaxAMShareDefault |-> 5],
   [queuePlacementRules |-> <<"user", "default">>, defaultQueue |-> "batch"],
   [defaultQueue |-> Null]}

NextGlobal ==
  \/ loadConfigFromDisk
  \/ \E config \in GlobalPartials : updateGlobalConfig(config)
  \/ reloadFromDisk

SpecGlobal == Init /\ [][NextGlobal]_vars

UpdatedGlobalConfig == lastOp'.op = "updateGlobalConfig" /\ edits' = edits + 1

\* C22: updateGlobalConfig(partial) sets exactly the fields of the partial
\* record to its values and leaves every other field of the global settings
\* at its previous value
C22_GlobalUpdateIsMerge ==
  [][UpdatedGlobalConfig =>
       /\ DOMAIN globalConfig' = DOMAIN globalConfig
       /\ \A f \in DOMAIN globalConfig :
            globalConfig'[f] = IF f \in DOMAIN lastOp'.config
                               THEN lastOp'.config[f] ELSE globalConfig[f]]_vars

\* an update of one field was made on settings that a file and an earlier
\* update had moved away from the defaults
C22_Witness ==
  /\ lastOp.op = "updateGlobalConfig"
  /\ lastOp.config = [userMaxAppsDefault |-> N(9)]
  /\ globalConfig.userMaxAppsDefault = N(9)
  /\ globalConfig.defaultQueueSchedulingPolicy = "fifo"
  /\ globalConfig.defaultQueue = "analytics"

(***************************************************************************)
(* Placement rules through parse and generate                              *)
(***************************************************************************)
\* a file with a placement policy was parsed, stored and generated again
RegeneratedPolicy == rt.phase = "regenerated" /\ rt.xml.rule # <<>>

\* C23: for a document whose placement policy lists rules r1..rn, the
\* document generated from the parsed settings has rule elements with the
\* same names in the same order
C23_RuleOrderPreserved ==
  RegeneratedPolicy =>
    /\ Len(rt.out.rule) = Len(rt.xml.rule)
    /\ \A i \in 1..Len(rt.xml.rule) : rt.out.rule[i].name = rt.xml.rule[i].name

\* a policy of three rules that is not in the default order and starts and
\* ends with the default rule
C23_Witness ==
  /\ RegeneratedPolicy
  /\ Len(rt.xml.rule) = 3
  /\ rt.xml.rule[1].name = "default" /\ rt.xml.rule[2].name = "user"
  /\ rt.out.rule[3].name = "default"

\* C24: the attributes of each placement rule survive parse then generate:
\* create="false" on any rule and the queue attribute of the default rule
\* are written again with the same values, and no attribute is added
C24_RuleAttributesPreserved ==
  RegeneratedPolicy =>
    /\ Len(rt.out.rule) = Len(rt.xml.rule)
    /\ \A i \in 1..Len(rt.xml.rule) : rt.out.rule[i] = rt.xml.rule[i]

(***************************************************************************)
(* Reloading a file that was edited outside the program                    *)
(***************************************************************************)
\* a well-formed text whose top-level element is not allocations
DocNoAllocations ==
  [Document(<<[QueueElem("etl") EXCEPT !.weight = NumText(4, <<>>)]>>,
            NumText(5, <<>>), "fair", <<>>) EXCEPT !.allocations = FALSE]

EditedFiles == {DocNoAllocations, DocMalformed, DefaultXMLContent}

\* an operator replaces the file at the configured path
FileEdited ==
  /\ loaded
  /\ \E xml \in EditedFiles :
       /\ disk[DefaultConfigPath] # xml
       /\ disk' = [disk EXCEPT ![DefaultConfigPath] = xml]
  /\ UNCHANGED <<queues, configFiles, globalConfig, currentQueueId, currentConfigId,
                 pendingChanges, lastSyncedState, loaded, edits, editRun, lastOp, rt>>

NextReload ==
  \/ loadConfigFromDisk
  \/ FileEdited
  \/ reloadFromDisk
  \/ \E insertQueue \in CreateInputs : createQueue(insertQueue)
  \/ \E id \in RequestIds, updateData \in UpdateInputs : updateQueue(id, updateData)

SpecReload == Init /\ [][NextReload]_vars

\* not well-formed, or without the allocations element
NotADocument(xml) == xml # NoFile /\ (~xml.ok \/ ~xml.allocations)

\* C25: parsing a text that is not well-formed, or that lacks the top-level
\* allocations element, fails; so reloadFromDisk on such a file fails and
\* keeps the queue set and the global settings
C25_ReloadRejectsBadDocument ==
  [][(/\ lastOp'.op = "reloadFromDisk"
      /\ currentConfigId' = currentConfigId + 1
      /\ NotADocument(disk[DefaultConfigPath])) =>
       /\ ~lastOp'.ok
       /\ UNCHANGED <<queues, globalConfig>>]_vars

(***************************************************************************)
(* The baseline and the pending set                                        *)
(***************************************************************************)
EditsAndDiscard == {"createQueue", "updateQueue", "deleteQueue", "discardPendingChanges"}
Synchronisations == {"load", "applyPendingChanges", "reloadFromDisk"}

\* C26: createQueue, updateQueue, deleteQueue and discardPendingChanges
\* leave the baseline as it is; a step that changes the baseline is the
\* initial load, a successful applyPendingChanges or a successful
\* reloadFromDisk
C26_BaselineFrame ==
  [][/\ lastOp'.op \in EditsAndDiscard => lastSyncedState' = lastSyncedState
     /\ lastSyncedState' # lastSyncedState =>
          (lastOp'.op \in Synchronisations /\ lastOp'.ok)]_vars

\* the second of two updates changed a queue of the baseline, and the record
\* of the baseline still has the value of the file
C26_Witness ==
  /\ lastOp.op = "updateQueue" /\ lastOp.ok /\ edits = MaxEdits
  /\ MapHas(lastSyncedState, lastOp.id)
  /\ MapGet(queues, lastOp.id) # MapGet(lastSyncedState, lastOp.id)

\* C27: after the initial load, whenever hasPendingChanges() is false the
\* queues are the baseline: the same ids with the same field values
C27_CleanMeansSynced ==
  (loaded /\ ~hasPendingChanges) => queues = lastSyncedState

\* a store that was edited twice is clean again
C27_Witness ==
  /\ loaded /\ ~hasPendingChanges /\ edits = MaxEdits
  /\ lastOp.op \in {"applyPendingChanges", "discardPendingChanges", "reloadFromDisk"}
  /\ lastOp.dirty
  /\ queues = lastSyncedState

\* C28: createQueue assigns an id that is the key of no queue of the map, so
\* every queue of the map is still there, unchanged, after the call
C28_CreateNeverOverwrites ==
  [][(lastOp'.op = "createQueue" /\ edits' = edits + 1) =>
       /\ ~MapHas(queues, currentQueueId)
       /\ \A id \in Ids(queues) : MapGet(queues', id) = MapGet(queues, id)]_vars

C30_ConfigFileIsLastWritten ==
  (ApplyDone /\ lastOp.ok /\ lastOp.wrote = "yes") =>
     getConfigFile.content = disk[DefaultConfigPath]

(***************************************************************************)
(* applyPendingChanges suspended while reloadFromDisk or another           *)
(* applyPendingChanges runs                                                *)
(***************************************************************************)
\* a second applyPendingChanges called, and run to its end, between two
\* awaits of the suspended one; reloadFromDisk likewise runs to its end
\* between two awaits, or on an idle store
applyDuring ==
  /\ rt.phase = "apply"
  /\ applyPendingChanges

NextAtomic ==
  \/ loadConfigFromDisk
  \/ createQueue(Batch)
  \/ applyCall
  \/ applyGenerate
  \/ applySave
  \/ applyWrite
  \/ applyFinish
  \/ reloadFromDisk
  \/ applyDuring

SpecAtomic == Init /\ [][NextAtomic]_vars

\* no call is suspended and the last call to return was a successful apply or
\* reload
AllCompleted ==
  /\ loaded /\ Idle
  /\ lastOp.op \in {"applyPendingChanges", "reloadFromDisk"} /\ lastOp.ok

Readable(file) == file # NoFile /\ file.ok

\* C21: applyPendingChanges is atomic with respect to reloadFromDisk and to
\* another applyPendingChanges: whatever the interleaving at the awaits, once
\* the calls have completed the baseline is the deduplicated parse of the
\* document on disk; in particular both have the same queue names
C21_ApplyIsAtomic ==
  (AllCompleted /\ Readable(disk[DefaultConfigPath])) =>
     Names(lastSyncedState) =
       Names(syncQueuesFromXML(parseQueuesFromXML(disk[DefaultConfigPath]).queues))

(***************************************************************************)
(* Global settings and the apply                                           *)
(***************************************************************************)
\* C31: when applyPendingChanges returns successfully right after an
\* updateGlobalConfig(partial), the document on disk has the values of the
\* partial record, whether or not a queue edit is pending
C31_GlobalChangePersistedByApply ==
  [][(lastOp.op = "updateGlobalConfig" /\ ApplyDone' /\ lastOp'.ok) =>
       /\ Readable(disk'[DefaultConfigPath])
       /\ LET onDisk == parseGlobalConfigFromXML(disk'[DefaultConfigPath]).config
          IN \A f \in DOMAIN lastOp.config : onDisk[f] = lastOp.config[f]]_vars

\* C32: when reloadFromDisk fails on a file that can be read but not parsed,
\* the state of the store is what it was, the config-file record that
\* getConfigFile() returns included
C32_FailedParseKeepsState ==
  [][(/\ ReloadDone' /\ ~lastOp'.ok
      /\ currentConfigId' = currentConfigId + 1
      /\ disk[DefaultConfigPath] # NoFile) =>
       /\ UNCHANGED <<queues, lastSyncedState, pendingChanges, globalConfig>>
       /\ getConfigFile' = getConfigFile]_vars

(***************************************************************************)
(* Calls that arrive before the initial load has finished                  *)
(***************************************************************************)
\* The constructor calls this.loadConfigFromDisk() without awaiting it: the
\* load is suspended at its read of the file when the constructor returns,
\* and the store takes calls before the load resumes and finishes.
createQueueEarly ==
  /\ ~loaded
  /\ \E insertQueue \in CreateInputs : doCreateQueue(insertQueue)

NextStartup ==
  \/ createQueueEarly
  \/ loadConfigFromDisk
  \/ \E insertQueue \in CreateInputs : createQueue(insertQueue)
  \/ \E id \in RequestIds, updateData \in UpdateInputs : updateQueue(id, updateData)
  \/ applyPendingChanges
  \/ discardPendingChanges

SpecStartup == Init /\ [][NextStartup]_vars

\* the queue of the id is not what the baseline has under that id
DiffersFromBaseline(qs, base, id) ==
  \/ MapHas(qs, id) # MapHas(base, id)
  \/ MapHas(qs, id) /\ MapGet(qs, id) # MapGet(base, id)

\* C33: when the initial load finishes, a queue created before is still in
\* the map, and every id of the pending set names a queue that differs from
\* the baseline
C33_EarlyCreateSurvivesLoad ==
  [][(~loaded /\ loaded') =>
       /\ \A id \in Ids(queues) :
            MapHas(queues', id) /\ MapGet(queues', id).name = MapGet(queues, id).name
       /\ \A id \in pendingChanges' :
            DiffersFromBaseline(queues', lastSyncedState', id)]_vars

(***************************************************************************)
(* The root queue through apply and reload                                 *)
(***************************************************************************)
RootsOf(list) == SelectSeq(list, LAMBDA q : q.name = "root")

\* C34: an edit of the weight or the scheduling policy of the root queue
\* survives a successful applyPendingChanges followed by reloadFromDisk:
\* after the reload there is one queue named root, without parent, with the
\* weight and the policy it had when the apply wrote the file
C34_RootEditSurvivesReload ==
  [][(/\ ApplyDone /\ lastOp.ok /\ lastOp.wrote = "yes"
      /\ Len(RootsOf(queues)) = 1
      /\ ReloadDone' /\ lastOp'.ok) =>
       /\ Len(RootsOf(queues')) = 1
       /\ ~TruthyStr(RootsOf(queues')[1].parent)
       /\ Effective(RootsOf(queues')[1]).weight = Effective(RootsOf(queues)[1]).weight
       /\ Effective(RootsOf(queues')[1]).schedulingPolicy =
            Effective(RootsOf(queues)[1]).schedulingPolicy]_vars

(***************************************************************************)
(* What the generator writes for a queue                                   *)
(***************************************************************************)
\* the queue of the list an element was generated from
SourceOf(list, elem) == FirstNamed(list, elem.name)

\* C35: every generated queue element, root or not, has allowPreemptionFrom
\* with the value true or false, false when the stored value is false or
\* unset; allowPreemptionTo is written only when it is set; aclSubmitApps and
\* aclAdministerApps are written only for queues other than root and only
\* with a value other than "*"
C35_EmissionRules ==
  rt.phase = "generated" =>
    LET out == Flatten(rt.xml.queue)
    IN \A i \in 1..Len(out) :
         LET q == SourceOf(rt.Q, out[i])
         IN /\ out[i].allowPreemptionFrom \in {"true", "false"}
            /\ (out[i].allowPreemptionFrom = "true") = (q.allowPreemptionFrom = "true")
            /\ out[i].allowPreemptionTo # "" =>
                 (q.allowPreemptionTo # Null /\ out[i].allowPreemptionTo = q.allowPreemptionTo)
            /\ q.allowPreemptionTo # Null => out[i].allowPreemptionTo # ""
            /\ out[i].aclSubmitApps # "" =>
                 (q.name # "root" /\ q.aclSubmitApps # "*"
                  /\ out[i].aclSubmitApps = q.aclSubmitApps)
            /\ out[i].aclAdministerApps # "" =>
                 (q.name # "root" /\ q.aclAdministerApps # "*"
                  /\ out[i].aclAdministerApps = q.aclAdministerApps)

\* a root with an ACL and a child whose allowPreemptionFrom is unset were
\* generated: both elements carry allowPreemptionFrom, the root no ACL
C35_Witness ==
  /\ rt.phase = "generated"
  /\ Len(rt.Q) = 2
  /\ rt.Q[1].aclSubmitApps = "alice" /\ rt.Q[2].allowPreemptionFrom = Null
  /\ Len(Flatten(rt.xml.queue)) = 2
  /\ Flatten(rt.xml.queue)[1].aclSubmitApps = ""
  /\ Flatten(rt.xml.queue)[2].allowPreemptionFrom = "false"

\* memory and vcores are both set (0 included)
BothSet(memory, vcores) ==
  memory # NullNum /\ vcores # NullNum /\ memory >= 0 /\ vcores >= 0

\* the field "<memory> mb,<vcores> vcores"
PairField(memory, vcores) ==
  <<[lit |-> NumText(memory \div 10, <<>>), unit |-> "mb"],
    [lit |-> NumText(vcores \div 10, <<>>), unit |-> "vcores"]>>

\* C36: for every queue other than root whose memory and vcores are both set
\* for a bound, 0 included, the generator writes the one field
\* "<memory> mb,<vcores> vcores", and parsing the field gives the two
\* integers back
C36_ResourcePairsJoint ==
  rt.phase = "parsed" =>
    \A i \in 1..Len(rt.Q) :
      LET q == rt.Q[i]
          out == Flatten(rt.xml.queue)
      IN q.name # "root" =>
           \E j \in 1..Len(out), k \in 1..Len(rt.parsedQueues) :
             /\ out[j].name = q.name /\ rt.parsedQueues[k].name = q.name
             /\ BothSet(q.minMemory, q.minVcores) =>
                  /\ out[j].minResources = PairField(q.minMemory, q.minVcores)
                  /\ rt.parsedQueues[k].minMemory = q.minMemory
                  /\ rt.parsedQueues[k].minVcores = q.minVcores
             /\ BothSet(q.maxMemory, q.maxVcores) =>
                  /\ out[j].maxResources = PairField(q.maxMemory, q.maxVcores)
                  /\ rt.parsedQueues[k].maxMemory = q.maxMemory
                  /\ rt.parsedQueues[k].maxVcores = q.maxVcores


(***************************************************************************)
(* C37: the hierarchy walk of the parser                                   *)
(***************************************************************************)
RECURSIVE NamedElements(_, _)
\* <<name, enclosing name>> of every queue element that has a name attribute,
\* in document order, "root" standing for the enclosing name at the top level
NamedElements(elems, enclosing) ==
  IF elems = <<>> THEN <<>>
  ELSE (IF Head(elems).name # "" THEN <<<<Head(elems).name, enclosing>>>> ELSE <<>>)
       \o NamedElements(Head(elems).queue, Head(elems).name)
       \o NamedElements(Tail(elems), enclosing)

RECURSIVE NamedPaths(_, _)
\* the same, for the elements whose enclosing queue elements all have a name
NamedPaths(elems, enclosing) ==
  IF elems = <<>> THEN <<>>
  ELSE (IF Head(elems).name # ""
        THEN <<<<Head(elems).name, enclosing>>>>
             \o NamedPaths(Head(elems).queue, Head(elems).name)
        ELSE <<>>)
       \o NamedPaths(Tail(elems), enclosing)

\* the records the walk pushed, as <<name, parent>>, without the synthesized
\* root the parser puts in front of them
WalkedPairs(parsed) ==
  IF parsed = <<>> THEN <<>>
  ELSE [i \in 1..(Len(parsed) - 1) |-> <<parsed[i + 1].name, parsed[i + 1].parent>>]

\* C37 as stated: parsing a file gives exactly one record for every queue
\* element that has a name attribute, its parent being the name of the
\* enclosing element or root at the top level, in pre-order
C37_EveryNamedElementWalked ==
  rt.phase = "stored" => WalkedPairs(rt.parsed) = NamedElements(rt.xml.queue, "root")

\* C37 (amended): parsing a file gives exactly one record for every named queue
\* element whose enclosing queue elements are all named, its parent being the
\* name of the enclosing element or root at the top level, in pre-order; the
\* elements below an element without a name give no record
C37_NamedPathWalked ==
  rt.phase = "stored" => WalkedPairs(rt.parsed) = NamedPaths(rt.xml.queue, "root")

\* a file with three levels was parsed: hourly under daily under etl, then
\* the later sibling adhoc of daily, then the later sibling batch of etl
C37_Witness ==
  /\ rt.phase = "stored"
  /\ WalkedPairs(rt.parsed) =
       <<<<"etl", "root">>, <<"daily", "etl">>, <<"hourly", "daily">>,
         <<"adhoc", "etl">>, <<"batch", "root">>>>


(***************************************************************************)
(* C38: resource texts the pair pattern does not match                     *)
(***************************************************************************)
\* the pair form "<memory> mb,<vcores> vcores"
PairForm(text) ==
  /\ Len(text) = 2
  /\ text[1].unit = "mb" /\ text[1].lit.kind = "num"
  /\ text[2].unit = "vcores" /\ text[2].lit.kind = "num"

\* the resource text of an element is present and is not of the pair form
Unmatched(text) == text # NoRes /\ ~PairForm(text)

\* C38: parsing a file in which a queue element has a minResources or
\* maxResources text that is not of the pair form does not fail; the element
\* gives a record with the two parts of that bound unset, and every named
\* element of the file gives its record, a well-formed bound with its integers
C38_LenientResources ==
  [][(rt.phase = "file"
        /\ \E i \in 1..Len(rt.xml.queue) :
             Unmatched(rt.xml.queue[i].minResources)
               \/ Unmatched(rt.xml.queue[i].maxResources))
     => /\ rt'.phase = "stored"
        /\ WalkedPairs(rt'.parsed) = NamedPaths(rt.xml.queue, "root")
        /\ \A i \in 1..Len(rt.xml.queue) :
             LET e == rt.xml.queue[i]
                 q == rt'.parsed[i + 1]
             IN /\ q.name = e.name
                /\ Unmatched(e.minResources) =>
                     q.minMemory = NullNum /\ q.minVcores = NullNum
                /\ Unmatched(e.maxResources) =>
                     q.maxMemory = NullNum /\ q.maxVcores = NullNum
                /\ e.minResources = Res(1024, 1) =>
                     q.minMemory = N(1024) /\ q.minVcores = N(1)
                /\ e.maxResources = Res(2048, 2) =>
                     q.maxMemory = N(2048) /\ q.maxVcores = N(2)]_vars

\* a file was parsed whose etl element has a minResources text with the mb
\* part only and a well-formed maxResources, next to a well-formed batch
C38_Witness ==
  /\ rt.phase = "stored"
  /\ Len(rt.xml.queue) = 2
  /\ rt.xml.queue[1].minResources = <<ResPart(N(1024), "mb")>>
  /\ rt.parsed[2].name = "etl"
  /\ rt.parsed[2].minMemory = NullNum
  /\ rt.parsed[2].maxMemory = N(2048)
  /\ rt.parsed[3].name = "batch"
  /\ rt.parsed[3].minVcores = N(1)

====
